---- MODULE Spec2Model ----
(***************************************************************************)
(* MonVoyage: the conversation engine (ConversationService.turn) and the   *)
(* enriched itinerary pipeline (ItineraryOrchestrator).                    *)
(*                                                                         *)
(* Text is a sequence of one-character strings, so that the string         *)
(* functions of the code (strip, lower, substring test, splitlines, the    *)
(* regular expressions) are computed as the code computes them.            *)
(***************************************************************************)
EXTENDS Integers, Sequences, FiniteSets, TLC

(***************************************************************************)
(* Characters and the str methods the code uses                            *)
(***************************************************************************)
LOWERCASE ==
    <<"a","b","c","d","e","f","g","h","i","j","k","l","m",
      "n","o","p","q","r","s","t","u","v","w","x","y","z">>

UPPERCASE ==
    <<"A","B","C","D","E","F","G","H","I","J","K","L","M",
      "N","O","P","Q","R","S","T","U","V","W","X","Y","Z">>

DIGITS == {"0","1","2","3","4","5","6","7","8","9"}

\* str.isspace(): the characters str.strip() and the regex class \s remove
WHITESPACE == {" ", "\t", "\n", "\r"}

Range(f) == {f[i] : i \in DOMAIN f}

\* the regex class \w
WORDCHARS == Range(LOWERCASE) \cup Range(UPPERCASE) \cup DIGITS \cup {"_"}

\* each capital letter's small letter, and back
TO_LOWER ==
    [c \in Range(UPPERCASE) |-> LOWERCASE[CHOOSE i \in DOMAIN UPPERCASE : UPPERCASE[i] = c]]

TO_UPPER ==
    [c \in Range(LOWERCASE) |-> UPPERCASE[CHOOSE i \in DOMAIN LOWERCASE : LOWERCASE[i] = c]]

\* str.lower() on one character
LowerChar(c) == IF c \in DOMAIN TO_LOWER THEN TO_LOWER[c] ELSE c

\* str.upper() on one character
UpperChar(c) == IF c \in DOMAIN TO_UPPER THEN TO_UPPER[c] ELSE c

\* str.lower()
Lower(s) == [i \in DOMAIN s |-> LowerChar(s[i])]

\* s[a:b] with 1-based inclusive bounds
Slice(s, a, b) == IF a > b THEN <<>> ELSE SubSeq(s, a, b)

\* str.strip()
Strip(s) ==
    IF \A i \in DOMAIN s : s[i] \in WHITESPACE THEN <<>>
    ELSE LET a == CHOOSE i \in DOMAIN s :
                      s[i] \notin WHITESPACE /\ \A j \in 1..(i - 1) : s[j] \in WHITESPACE
             b == CHOOSE i \in DOMAIN s :
                      s[i] \notin WHITESPACE /\ \A j \in (i + 1)..Len(s) : s[j] \in WHITESPACE
         IN  SubSeq(s, a, b)

Min(S) == CHOOSE x \in S : \A y \in S : x <= y
Max(S) == CHOOSE x \in S : \A y \in S : x >= y

\* str.startswith(prefix)
StartsWith(s, prefix) ==
    /\ Len(prefix) <= Len(s)
    /\ SubSeq(s, 1, Len(prefix)) = prefix

\* `sub in s`
Contains(s, sub) ==
    \E i \in 0..(Len(s) - Len(sub)) :
        \A j \in DOMAIN sub : s[i + j] = sub[j]

\* str.splitlines(): the lines of s without their line breaks
\* ("\r\n" is one break; no empty last line after a final break)
RECURSIVE SplitLinesFrom(_, _)
SplitLinesFrom(s, i) ==
    IF i > Len(s) THEN <<>>
    ELSE LET breaks == {j \in i..Len(s) : s[j] \in {"\n", "\r"}}
         IN  IF breaks = {} THEN <<SubSeq(s, i, Len(s))>>
             ELSE LET b == CHOOSE j \in breaks : \A k \in breaks : j <= k
                      next == IF s[b] = "\r" /\ b < Len(s) /\ s[b + 1] = "\n"
                              THEN b + 2 ELSE b + 1
                  IN  <<Slice(s, i, b - 1)>> \o SplitLinesFrom(s, next)

SplitLines(s) == SplitLinesFrom(s, 1)

\* "\n".join(lines)
RECURSIVE JoinLines(_)
JoinLines(lines) ==
    IF lines = <<>> THEN <<>>
    ELSE IF Len(lines) = 1 THEN lines[1]
    ELSE lines[1] \o <<"\n">> \o JoinLines(Tail(lines))

(***************************************************************************)
(* Regular expressions (module re): a pattern is a tree, Ends gives every  *)
(* position at which a match that starts at position i can end.            *)
(***************************************************************************)
Lit(c) == [k |-> "lit", c |-> c]
Cls(cs) == [k |-> "set", cs |-> cs]
AnyChar == [k |-> "any"]
Cat(rs) == [k |-> "cat", rs |-> rs]
Alt(rs) == [k |-> "alt", rs |-> rs]
\* r{lo,hi}; hi = -1 is "no upper limit"
Rep(r, lo, hi) == [k |-> "rep", r |-> r, lo |-> lo, hi |-> hi]
WordBoundary == [k |-> "wb"]
Eol == [k |-> "eol"]
\* a literal string
Str(cs) == [k |-> "str", cs |-> cs]
\* (w1|w2|...), literal words, kept by their first letter
Words(css) ==
    [k |-> "words",
     by |-> [c \in {LowerChar(cs[1]) : cs \in css} |-> {cs \in css : LowerChar(cs[1]) = c}]]
Opt(r) == Rep(r, 0, 1)
Star(r) == Rep(r, 0, -1)
\* \s*
Ws == Star(Cls(WHITESPACE))

IsWordAt(s, i) == i >= 1 /\ i <= Len(s) /\ s[i] \in WORDCHARS

\* the literal cs stands at position i of s
StrAt(cs, s, i, ic) ==
    /\ i + Len(cs) - 1 <= Len(s)
    /\ \A j \in DOMAIN cs :
          \/ s[i + j - 1] = cs[j]
          \/ ic /\ LowerChar(s[i + j - 1]) = LowerChar(cs[j])

RECURSIVE Ends(_, _, _, _)
RECURSIVE CatEnds(_, _, _, _, _)
RECURSIVE RepEnds(_, _, _, _, _)

\* ic is the flag re.IGNORECASE
Ends(r, s, i, ic) ==
    CASE r.k = "lit" ->
            IF /\ i <= Len(s)
               /\ \/ s[i] = r.c
                  \/ ic /\ LowerChar(s[i]) = LowerChar(r.c)
            THEN {i + 1} ELSE {}
      [] r.k = "str" -> IF StrAt(r.cs, s, i, ic) THEN {i + Len(r.cs)} ELSE {}
      [] r.k = "words" ->
            IF i > Len(s) \/ LowerChar(s[i]) \notin DOMAIN r.by THEN {}
            ELSE {i + Len(cs) : cs \in {w \in r.by[LowerChar(s[i])] : StrAt(w, s, i, ic)}}
      [] r.k = "set" ->
            IF /\ i <= Len(s)
               /\ \/ s[i] \in r.cs
                  \/ ic /\ (LowerChar(s[i]) \in r.cs \/ UpperChar(s[i]) \in r.cs)
            THEN {i + 1} ELSE {}
      [] r.k = "any" -> IF i <= Len(s) /\ s[i] # "\n" THEN {i + 1} ELSE {}
      [] r.k = "cat" -> CatEnds(r.rs, 1, s, {i}, ic)
      [] r.k = "alt" -> UNION {Ends(r.rs[j], s, i, ic) : j \in DOMAIN r.rs}
      [] r.k = "rep" -> RepEnds(r, 0, s, {i}, ic)
      [] r.k = "wb" -> IF IsWordAt(s, i - 1) # IsWordAt(s, i) THEN {i} ELSE {}
      [] r.k = "bol" -> IF i = 1 THEN {i} ELSE {}
      [] r.k = "eol" ->
            IF i = Len(s) + 1 \/ (i = Len(s) /\ s[i] = "\n") THEN {i} ELSE {}

CatEnds(rs, j, s, from, ic) ==
    IF j > Len(rs) \/ from = {} THEN from
    ELSE CatEnds(rs, j + 1, s, UNION {Ends(rs[j], s, i, ic) : i \in from}, ic)

\* `from`: where n repetitions can end
RepEnds(r, n, s, from, ic) ==
    IF from = {} THEN {}
    ELSE LET here == IF n >= r.lo THEN from ELSE {}
             more == UNION {Ends(r.r, s, i, ic) : i \in from}
         IN  IF (r.hi >= 0 /\ n >= r.hi) \/ n > Len(s) THEN here
             ELSE here \cup RepEnds(r, n + 1, s, more, ic)

\* pattern.match(s)
ReMatch(r, s, ic) == Ends(r, s, 1, ic) # {}

\* pattern.search(s): a match from some position. Only the positions whose
\* character can begin a match are tried: `first` holds those characters in lower
\* case, or "*" when the pattern can begin with anything or with nothing.
ReSearch(r, s, ic) ==
    LET RECURSIVE First(_), FirstSeq(_, _)
        First(q) ==
            CASE q.k = "lit" -> {LowerChar(q.c)}
              [] q.k = "str" -> IF q.cs = <<>> THEN {"*"} ELSE {LowerChar(q.cs[1])}
              [] q.k = "words" -> DOMAIN q.by
              [] q.k = "set" -> {LowerChar(c) : c \in q.cs}
              [] q.k = "cat" -> FirstSeq(q.rs, 1)
              [] q.k = "alt" -> UNION {First(q.rs[j]) : j \in DOMAIN q.rs}
              [] q.k = "rep" -> IF q.lo = 0 THEN {"*"} ELSE First(q.r)
              [] OTHER -> {"*"}
        FirstSeq(qs, j) ==
            IF j > Len(qs) THEN {"*"}
            ELSE IF qs[j].k \in {"wb", "bol", "eol"} THEN FirstSeq(qs, j + 1)
            ELSE First(qs[j])
        first == First(r)
    IN  IF "*" \in first
        THEN \E i \in 1..(Len(s) + 1) : Ends(r, s, i, ic) # {}
        ELSE \E i \in 1..Len(s) : LowerChar(s[i]) \in first /\ Ends(r, s, i, ic) # {}

(***************************************************************************)
(* Optional values. None is Python's None; a text or a list that may be    *)
(* None is wrapped by Some.                                                *)
(***************************************************************************)
None == [none |-> TRUE]
Some(v) == [some |-> v]

\* the one-element token that stands for the em dash U+2014
EM_DASH == "u2014"

(***************************************************************************)
(* conversation_service.py: module constants                               *)
(***************************************************************************)
\* _AFFIRMATIVE_PATTERNS (compiled with re.IGNORECASE)
_AFFIRMATIVE_PATTERNS ==
    Cat(<<([k |-> "bol"]), Ws,
          Alt(<<
                Cat(<<Str(<<"y","e","s">>), Ws, Opt(Lit(",")), Ws, Str(<<"p","l","e","a","s","e">>)>>),
                Str(<<"y","e","s">>),
                Str(<<"y","e","a","h">>),
                Str(<<"y","e","p">>),
                Str(<<"y","u","p">>),
                Str(<<"s","u","r","e">>),
                Cat(<<Str(<<"g","o">>), Ws, Str(<<"a","h","e","a","d">>)>>),
                Cat(<<Str(<<"p","l","e","a","s","e">>), Ws, Str(<<"d","o">>)>>),
                Cat(<<Str(<<"l","e","t">>), Opt(Lit("'")), Opt(Lit("s")), Ws, Str(<<"d","o">>), Ws, Str(<<"i","t">>)>>),
                Cat(<<Str(<<"l","e","t">>), Opt(Lit("'")), Opt(Lit("s")), Ws, Str(<<"g","o">>)>>),
                Str(<<"a","b","s","o","l","u","t","e","l","y">>),
                Str(<<"o","k">>),
                Str(<<"o","k","a","y">>),
                Cat(<<Str(<<"s","o","u","n","d","s">>), Ws, Str(<<"g","o","o","d">>)>>),
                Cat(<<Str(<<"g","e","n","e","r","a","t","e">>), Ws, Str(<<"i","t">>)>>),
                Str(<<"g","e","n","e","r","a","t","e">>),
                Cat(<<Str(<<"d","o">>), Ws, Str(<<"i","t">>)>>),
                Cat(<<Str(<<"f","o","r">>), Ws, Str(<<"s","u","r","e">>)>>),
                Str(<<"d","e","f","i","n","i","t","e","l","y">>),
                Cat(<<Str(<<"o","f">>), Ws, Str(<<"c","o","u","r","s","e">>)>>),
                Cat(<<Str(<<"y","e","s">>), Ws, Opt(Lit(",")), Ws, Str(<<"g","e","n","e","r","a","t","e">>), Ws, Str(<<"i","t">>)>>),
                Str(<<"p","l","e","a","s","e">>)>>),
          Opt(Cls({".", "!"})), Ws, Eol>>)

_CONFIRMATION_MARKER ==
    <<"g","e","n","e","r","a","t","e"," ","y","o","u","r"," ","i","t","i","n","e","r","a","r",
      "y">>

\* INTAKE_SYSTEM_PROMPT, cut down to its confirmation question (Step D)
INTAKE_SYSTEM_PROMPT ==
    <<"S","h","o","u","l","d"," ","I"," ","g","o"," ","a","h","e","a","d"," ","a","n","d"," ",
      "g","e","n","e","r","a","t","e"," ","y","o","u","r"," ","[","C","i","t","y","]"," ","i",
      "t","i","n","e","r","a","r","y"," ","n","o","w","?">>

\* the literal `greeting` of ConversationService._greeting
GREETING_TEXT ==
    <<"H","e","y"," ","t","h","e","r","e","!"," ","W","e","l","c","o","m","e"," ","t","o"," ",
      "t","h","e"," ","T","r","i","p"," ","P","l","a","n","n","e","r","!"," ","I","'","d"," ",
      "l","o","v","e"," ","t","o"," ","h","e","l","p"," ","y","o","u"," ","p","u","t"," ","t",
      "o","g","e","t","h","e","r"," ","a"," ","g","r","e","a","t"," ","t","r","a","v","e","l",
      " ","i","t","i","n","e","r","a","r","y","."," ","T","o"," ","g","e","t"," ","s","t","a",
      "r","t","e","d",","," ","c","o","u","l","d"," ","y","o","u"," ","t","e","l","l"," ","m",
      "e"," ","a"," ","b","i","t"," ","a","b","o","u","t"," ","y","o","u","r"," ","t","r","i",
      "p","?"," ","T","h","i","n","g","s"," ","l","i","k","e"," ","w","h","e","r","e"," ","y",
      "o","u","'","r","e"," ","p","l","a","n","n","i","n","g"," ","t","o"," ","v","i","s","i",
      "t"," ","(","c","i","t","y"," ","a","n","d"," ","c","o","u","n","t","r","y",")",","," ",
      "w","h","e","n"," ","y","o","u","'","r","e"," ","t","r","a","v","e","l","i","n","g",",",
      " ","w","h","a","t"," ","k","i","n","d","s"," ","o","f"," ","a","c","t","i","v","i","t",
      "i","e","s"," ","y","o","u"," ","e","n","j","o","y",","," ","a","n","d"," ","w","h","e",
      "t","h","e","r"," ","y","o","u","'","d"," ","l","i","k","e"," ","a"," ","r","e","l","a",
      "x","e","d",","," ","m","o","d","e","r","a","t","e",","," ","o","r"," ","p","a","c","k",
      "e","d"," ","s","c","h","e","d","u","l","e","?">>

STILL_NEED_PREFIX ==
    <<"s","t","i","l","l"," ","n","e","e","d",":">>

\* ["city", "country", "travel dates", "pace"]
REQUIRED_FIELDS ==
    <<<<"c","i","t","y">>,
      <<"c","o","u","n","t","r","y">>,
      <<"t","r","a","v","e","l"," ","d","a","t","e","s">>,
      <<"p","a","c","e">>>>

Message(role, content) == [role |-> role, content |-> content]

(***************************************************************************)
(* What the environment can send: the user's inputs and the replies of an  *)
(* LLM backend.                                                            *)
(***************************************************************************)
U_YES ==
    <<"y","e","s">>

U_VISIT ==
    <<"I"," ","w","a","n","t"," ","t","o"," ","v","i","s","i","t"," ","T","o","r","o","n","t",
      "o">>

U_BOOKING ==
    <<"Y","e","s"," ","p","l","e","a","s","e",","," ","a"," ","f","l","i","g","h","t"," ","f",
      "r","o","m"," ","O","t","t","a","w","a"," ","a","n","d"," ","a","n"," ","A","i","r","b",
      "n","b">>

REPLY_ASK ==
    <<"W","h","e","n"," ","a","r","e"," ","y","o","u"," ","t","r","a","v","e","l","l","i","n",
      "g","?","\n","S","t","i","l","l"," ","n","e","e","d",":"," ","t","r","a","v","e","l"," ",
      "d","a","t","e","s",","," ","p","a","c","e">>

REPLY_CONFIRM ==
    <<"S","h","o","u","l","d"," ","I"," ","g","o"," ","a","h","e","a","d"," ","a","n","d"," ",
      "g","e","n","e","r","a","t","e"," ","y","o","u","r"," ","i","t","i","n","e","r","a","r",
      "y"," ","n","o","w","?","\n","S","t","i","l","l"," ","n","e","e","d",":"," ","n","o","n",
      "e">>

\* the confirmation question of the prompt's Example 4, with the city filled in
REPLY_PROMPT_QUESTION ==
    <<"S","h","o","u","l","d"," ","I"," ","g","o"," ","a","h","e","a","d"," ","a","n","d",
      " ","g","e","n","e","r","a","t","e"," ","y","o","u","r"," ","T","o","r","o","n","t",
      "o"," ","i","t","i","n","e","r","a","r","y"," ","n","o","w","?","\n","S","t","i","l",
      "l"," ","n","e","e","d",":"," ","n","o","n","e">>

\* a reply that is its tracking line alone, the confirmation phrase inside it
REPLY_TRACKED_ONLY ==
    <<"S","t","i","l","l"," ","n","e","e","d",":"," ","n","o","n","e",","," ","r","e","a",
      "d","y"," ","t","o"," ","g","e","n","e","r","a","t","e"," ","y","o","u","r"," ","i",
      "t","i","n","e","r","a","r","y">>

\* a reply whose tracking text follows other words on the same line
REPLY_INLINE ==
    <<"G","r","e","a","t","!"," ","S","t","i","l","l"," ","n","e","e","d",":"," ","t",
      "r","a","v","e","l"," ","d","a","t","e","s",","," ","p","a","c","e">>

REPLY_ITINERARY ==
    <<"D","a","y"," ","1","\n","M","o","r","n","i","n","g",":"," ","T","o","u","r"," ",EM_DASH," ",
      "C","N"," ","T","o","w","e","r"," ","(","S","o","u","r","c","e",":"," ","c","n","_","t",
      "o","w","e","r",","," ","h","t","t","p","s",":","/","/","w","w","w",".","c","n","t","o",
      "w","e","r",".","c","a",")","\n","L","u","n","c","h",":"," ","E","a","t"," ",EM_DASH," ","R",
      "O","M"," ","(","S","o","u","r","c","e",":"," ","r","o","m",","," ","h","t","t","p","s",
      ":","/","/","w","w","w",".","r","o","m",".","o","n",".","c","a",")">>


\* services/venue_service.py, lines 44-165: place_key and name of the 15 entries
TORONTO_FALLBACK_VENUES ==
    <<[place_key |-> "cn_tower", name |-> "CN Tower"],
      [place_key |-> "rom", name |-> "Royal Ontario Museum"],
      [place_key |-> "st_lawrence_market", name |-> "St. Lawrence Market"],
      [place_key |-> "ripley_aquarium", name |-> "Ripley's Aquarium of Canada"],
      [place_key |-> "high_park", name |-> "High Park"],
      [place_key |-> "distillery_district", name |-> "Distillery Historic District"],
      [place_key |-> "kensington_market", name |-> "Kensington Market"],
      [place_key |-> "hockey_hall_of_fame", name |-> "Hockey Hall of Fame"],
      [place_key |-> "casa_loma", name |-> "Casa Loma"],
      [place_key |-> "ago", name |-> "Art Gallery of Ontario"],
      [place_key |-> "toronto_islands", name |-> "Toronto Islands"],
      [place_key |-> "harbourfront_centre", name |-> "Harbourfront Centre"],
      [place_key |-> "bata_shoe_museum", name |-> "Bata Shoe Museum"],
      [place_key |-> "toronto_zoo", name |-> "Toronto Zoo"],
      [place_key |-> "aga_khan_museum", name |-> "Aga Khan Museum"]>>

\* rows of the venue database for the city asked for, in the order of the query
DB_VENUES ==
    <<[place_key |-> "rom", name |-> "Royal Ontario Museum"],
      [place_key |-> "cn_tower", name |-> "CN Tower"],
      [place_key |-> "ago", name |-> "Art Gallery of Ontario"]>>

(***************************************************************************)
(* Bounds of the model                                                     *)
(***************************************************************************)
\* turns of one conversation the caller makes
MaxTurns == 2

\* the years datetime.now() gives
YEARS == {2026, 2027}

(***************************************************************************)
(* State                                                                   *)
(***************************************************************************)
VARIABLES
    \* the ConversationService instance (__init__, lines 275-308)
    use_groq, use_gemini, groq_client, gemini_client, venue_service, orchestrator,
    \* settings.GEMINI_KEY is set: GeminiClient() can be constructed
    gemini_key,
    \* the caller: the transcript it passed to the turn, the phases returned to it so
    \* far, the turns it has made
    transcript, phases, turns,
    \* the turn in progress: where the coroutine waits, its arguments and locals
    pc, user_input, messages, route, llm_calls, booking_type, legacy_venues,
    \* what the last turn gave the caller
    result,
    \* a caller of _extract_preferences_from_history: the messages it passes, the
    \* keyword arguments the extractor had for TripPreferences and what the call
    \* gave, and both for the call before, on the transcript without its last message
    history, arguments, preferences, earlier,
    \* a caller of one of the functions that derive the length of a trip from its
    \* dates: the function, what it was given and what it gave
    dated,
    \* a caller of one function of ItineraryService or of the enrichment helpers of
    \* ItineraryOrchestrator: the function, what it was given and what it gave
    called

extractVars == <<history, arguments, preferences, earlier, dated, called>>
svcVars == <<use_groq, use_gemini, groq_client, gemini_client, venue_service, orchestrator,
             gemini_key, extractVars>>
flagVars == <<use_gemini, gemini_client>>
constVars == <<use_groq, groq_client, venue_service, orchestrator, gemini_key, extractVars>>
argVars == <<transcript, turns, user_input, route, booking_type>>
vars == <<use_groq, use_gemini, groq_client, gemini_client, venue_service, orchestrator,
          gemini_key, transcript, phases, turns, pc, user_input, messages, route,
          llm_calls, booking_type, legacy_venues, result, history, arguments, preferences,
          earlier, dated, called>>

\* Python truthiness of an Optional[str]
Truthy(x) == x # None /\ x.some # <<>>

(***************************************************************************)
(* What a collaborator can do when it is called: raise, or return a value  *)
(***************************************************************************)
Raises == [kind |-> "raises"]
Returns(v) == [kind |-> "returns", value |-> v]
\* the collaborator is not there, or the lookup is not asked for: no call is made
NotCalled == [kind |-> "absent"]

\* chat_with_history returns the content of the first choice, which may be "".
\* The replies to the itinerary request:
LLMOutcomes ==
    {Raises, Returns(<<>>)} \cup {Returns(r) : r \in {REPLY_CONFIRM, REPLY_ITINERARY}}
\* the replies to the intake conversation
IntakeOutcomes ==
    {Raises, Returns(<<>>)}
    \cup {Returns(r) : r \in {REPLY_ASK, REPLY_CONFIRM, REPLY_PROMPT_QUESTION,
                               REPLY_TRACKED_ONLY, REPLY_INLINE}}
\* what the places query of VenueService does
VenueOutcomes == {Raises, Returns(<<>>), Returns(DB_VENUES)}
\* a lookup: not started, running, or done with what the collaborator did
Idle == [st |-> "none"]
Done(outcome) == [st |-> "done", outcome |-> outcome]
(***************************************************************************)
(* ConversationService: helpers                                            *)
(***************************************************************************)
\* any assistant message will do
_user_is_confirming_any_assistant(msgs, input) ==
    /\ Truthy(input)
    /\ ReMatch(_AFFIRMATIVE_PATTERNS, Strip(input.some), TRUE)
    /\ \E i \in DOMAIN msgs :
          /\ msgs[i].role = "assistant"
          /\ Contains(Lower(msgs[i].content), Lower(_CONFIRMATION_MARKER))

_user_is_confirming(msgs, input) ==
    LET \* the loop of lines 642-647: the last assistant message
        RECURSIVE LastAssistantHasMarker(_)
        LastAssistantHasMarker(i) ==
            IF i = 0 THEN FALSE
            ELSE IF msgs[i].role = "assistant"
                 THEN Contains(Lower(msgs[i].content), Lower(_CONFIRMATION_MARKER))
            ELSE LastAssistantHasMarker(i - 1)
    IN  IF ~Truthy(input) THEN FALSE
        ELSE IF ~ReMatch(_AFFIRMATIVE_PATTERNS, Strip(input.some), TRUE) THEN FALSE
        ELSE LastAssistantHasMarker(Len(msgs))

\* the greeting is given only when there is no user input either
IsGreetingTurn_no_input(msgs, input) ==
    msgs = <<>> /\ ~Truthy(input)

\* turn, line 332: the greeting test
IsGreetingTurn(msgs, input) ==
    msgs = <<>> \/ (~Truthy(input) /\ Len(msgs) = 0)

\* _intake_turn, lines 427-431: the reply as the user sees it
CleanResponse(response_text) ==
    LET
        \* the lines that are no "Still need:" lines
        RECURSIVE DropStillNeedLines(_)
        DropStillNeedLines(lines) ==
            IF lines = <<>> THEN <<>>
            ELSE IF StartsWith(Lower(Strip(Head(lines))), STILL_NEED_PREFIX)
                 THEN DropStillNeedLines(Tail(lines))
            ELSE <<Head(lines)>> \o DropStillNeedLines(Tail(lines))
    IN  Strip(JoinLines(DropStillNeedLines(SplitLines(response_text))))

\* _parse_still_need, lines 651-661: the last "Still need:" line of the reply
_parse_still_need(text) ==
    LET
        \* remainder.split(",")
        RECURSIVE SplitComma(_)
        SplitComma(s) ==
            LET commas == {j \in DOMAIN s : s[j] = ","}
            IN  IF commas = {} THEN <<s>>
                ELSE <<Slice(s, 1, Min(commas) - 1)>>
                         \o SplitComma(Slice(s, Min(commas) + 1, Len(s)))
        \* [item.strip() for item in items if item.strip()]
        RECURSIVE StripItems(_)
        StripItems(items) ==
            IF items = <<>> THEN <<>>
            ELSE IF Strip(Head(items)) = <<>> THEN StripItems(Tail(items))
            ELSE <<Strip(Head(items))>> \o StripItems(Tail(items))
        NOTHING_LEFT ==
            {<<"n","o","n","e">>, <<"n","o","t","h","i","n","g">>, <<"n","/","a">>}
        lines == SplitLines(Strip(text))
        found == {i \in DOMAIN lines :
                     StartsWith(Lower(Strip(lines[i])), STILL_NEED_PREFIX)}
        stripped == Strip(lines[Max(found)])
        remainder == Strip(Slice(stripped, Len(STILL_NEED_PREFIX) + 1, Len(stripped)))
    IN  IF found = {} THEN None
        ELSE IF remainder = <<>> \/ Lower(remainder) \in NOTHING_LEFT THEN Some(<<>>)
        ELSE Some(StripItems(SplitComma(remainder)))

\* every reply is an intake reply
IntakePhase_never_confirmed(response_text) == "intake"

\* _intake_turn, lines 435-438
IntakePhase(response_text) ==
    IF Contains(Lower(response_text), Lower(_CONFIRMATION_MARKER))
    THEN "confirmed" ELSE "intake"

\* `if not response_text`, lines 401, 412, 566 and 577, and in _call_llm
NoResponse(response_text) == response_text = <<>>

\* response_text after a call of chat_with_history in a try block
ResponseText(outcome) ==
    IF outcome.kind = "returns" THEN outcome.value ELSE <<>>

\* _greeting, lines 361-364
GreetingMessages ==
    <<Message("system", INTAKE_SYSTEM_PROMPT), Message("assistant", GREETING_TEXT)>>

\* one call of chat_with_history, as the caller sees it
LLMCall(site, backend, msgs, max_tokens) ==
    [site |-> site, backend |-> backend, messages |-> msgs,
     temperature_x10 |-> 7, max_tokens |-> max_tokens, status |-> "running",
     reply |-> <<>>]

\* the call is over: how it ended, and the text it returned
Settle(calls, outcome) ==
    LET status == IF outcome.kind = "raises" THEN "raised"
                  ELSE IF outcome.value = <<>> THEN "empty" ELSE "text"
    IN  [calls EXCEPT ![Len(calls)].status = status,
                      ![Len(calls)].reply = ResponseText(outcome)]

(***************************************************************************)
(* ItineraryOrchestrator: helpers                                          *)
(***************************************************************************)
\* VenueService.get_all_venues_for_city, venue_service.py lines 267-303: the rows
\* of the places query, and no rows when the query raises
get_all_venues_for_city(query) ==
    IF query.kind = "returns" THEN query.value ELSE <<>>

\* _fetch_venues, lines 437-458; outcome is NotCalled when there is no venue service
_fetch_venues(outcome) ==
    LET venues == IF outcome.kind = "absent" THEN <<>>
                  ELSE get_all_venues_for_city(outcome)
    IN  IF venues # <<>> THEN venues ELSE TORONTO_FALLBACK_VENUES

\* VenueService.format_venues_for_chat, venue_service.py lines 362-385: one line
\* per venue, with its venue_id and its name
format_venues_for_chat(venues) ==
    IF venues = <<>> THEN <<[text |-> "(No venues available.)"]>>
    ELSE [i \in DOMAIN venues |->
             [venue_id |-> venues[i].place_key, name |-> venues[i].name]]

\* _format_booking_links, lines 629-645
_format_booking_links(booking_result) ==
    IF booking_result = None THEN None
    ELSE IF booking_result.skipped THEN None
    ELSE LET airbnb == booking_result.accommodation.airbnb_link
             flight == booking_result.transportation.flights.skyscanner_link
         IN  IF airbnb = None /\ flight = None THEN None
             ELSE [airbnb |-> airbnb, flight |-> flight]

\* the message list of an itinerary generation: lines 238-259, and
\* conversation_service.py lines 528-547
ItineraryMessages(system, msgs) ==
    <<Message("system", system)>>
        \o SelectSeq(msgs, LAMBDA m : m.role # "system")
        \o <<Message("user", "Please generate my itinerary now")>>

(***************************************************************************)
(* _extract_booking_info, conversation_service.py lines 589-627            *)
(***************************************************************************)
\* a join that does not look at the role of a message
RECURSIVE JoinUserTexts_all_roles(_, _)
JoinUserTexts_all_roles(msgs, i) ==
    IF i > Len(msgs) THEN <<>>
    ELSE IF i = Len(msgs) THEN msgs[i].content
    ELSE msgs[i].content \o <<" ">> \o JoinUserTexts_all_roles(msgs, i + 1)

\* " ".join of the contents of the user messages
RECURSIVE JoinUserTexts(_, _)
JoinUserTexts(msgs, i) ==
    IF i > Len(msgs) THEN <<>>
    ELSE IF msgs[i].role # "user" THEN JoinUserTexts(msgs, i + 1)
    ELSE LET rest == JoinUserTexts(msgs, i + 1)
         IN  IF \E j \in (i + 1)..Len(msgs) : msgs[j].role = "user"
             THEN msgs[i].content \o <<" ">> \o rest
             ELSE msgs[i].content

_extract_booking_info(msgs) ==
    LET
        \* \b(yes|yeah|sure|yep|ok|okay|please|fly|flight|flying)\b
        FLIGHT_AFFIRMATIVE ==
            Cat(<<WordBoundary,
                  Words({<<"y","e","s">>,
                          <<"y","e","a","h">>,
                          <<"s","u","r","e">>,
                          <<"y","e","p">>,
                          <<"o","k">>,
                          <<"o","k","a","y">>,
                          <<"p","l","e","a","s","e">>,
                          <<"f","l","y">>,
                          <<"f","l","i","g","h","t">>,
                          <<"f","l","y","i","n","g">>}),
                  WordBoundary>>)
        \* (flight|fly|flying from|departing from|ticket)
        FLIGHT_WORD ==
            Words({<<"f","l","i","g","h","t">>,
                     <<"f","l","y">>,
                     <<"f","l","y","i","n","g"," ","f","r","o","m">>,
                     <<"d","e","p","a","r","t","i","n","g"," ","f","r","o","m">>,
                     <<"t","i","c","k","e","t">>})
        \* \b(yes|yeah|sure|yep|ok|okay|please)\b.{0,30}(airbnb|stay|accommodation|place to stay|place)
        AIRBNB_REQUEST ==
            Cat(<<WordBoundary,
                  Words({<<"y","e","s">>,
                          <<"y","e","a","h">>,
                          <<"s","u","r","e">>,
                          <<"y","e","p">>,
                          <<"o","k">>,
                          <<"o","k","a","y">>,
                          <<"p","l","e","a","s","e">>}),
                  WordBoundary,
                  Rep(AnyChar, 0, 30),
                  Words({<<"a","i","r","b","n","b">>,
                          <<"s","t","a","y">>,
                          <<"a","c","c","o","m","m","o","d","a","t","i","o","n">>,
                          <<"p","l","a","c","e"," ","t","o"," ","s","t","a","y">>,
                          <<"p","l","a","c","e">>})>>)
        user_texts == JoinUserTexts(msgs, 1)
        wants_flight == /\ ReSearch(FLIGHT_AFFIRMATIVE, user_texts, TRUE)
                        /\ ReSearch(FLIGHT_WORD, user_texts, TRUE)
        wants_airbnb == ReSearch(AIRBNB_REQUEST, user_texts, TRUE)
    IN  IF wants_flight /\ wants_airbnb THEN "both"
        ELSE IF wants_flight THEN "transportation"
        ELSE IF wants_airbnb THEN "accommodation"
        ELSE "none"

(***************************************************************************)
(* _validate_fields_from_conversation, conversation_service.py lines       *)
(* 663-734: the required fields the user messages do not show              *)
(***************************************************************************)
LowerClass == Cls(Range(LOWERCASE))
UpperClass == Cls(Range(UPPERCASE))
Digit == Cls(DIGITS)
Blank == Cls(WHITESPACE)
Plus(r) == Rep(r, 1, -1)

\* \d{1,2}
DAY_NUMBER == Rep(Digit, 1, 2)

_validate_fields_from_conversation(msgs) ==
    LET
        \* date_patterns, lines 704-717
        DATE_PATTERNS ==
            LET
                \* (?:jan|feb|...|dec)[a-z]*
                MONTH_PREFIX ==
                    Cat(<<Words({<<"j","a","n">>,
                          <<"f","e","b">>,
                          <<"m","a","r">>,
                          <<"a","p","r">>,
                          <<"m","a","y">>,
                          <<"j","u","n">>,
                          <<"j","u","l">>,
                          <<"a","u","g">>,
                          <<"s","e","p">>,
                          <<"s","e","p","t">>,
                          <<"o","c","t">>,
                          <<"n","o","v">>,
                          <<"d","e","c">>}),
                          Star(LowerClass)>>)
            IN  <<Cat(<<Str(<<"f","r","o","m">>), Plus(Blank), MONTH_PREFIX, Plus(Blank), DAY_NUMBER,
                        Plus(Blank), Str(<<"t","o">>), Plus(Blank), MONTH_PREFIX, Plus(Blank),
                        DAY_NUMBER>>),
                  Cat(<<WordBoundary,
                        Words({<<"j","a","n","u","a","r","y">>,
                              <<"f","e","b","r","u","a","r","y">>,
                              <<"m","a","r","c","h">>,
                              <<"a","p","r","i","l">>,
                              <<"m","a","y">>,
                              <<"j","u","n","e">>,
                              <<"j","u","l","y">>,
                              <<"a","u","g","u","s","t">>,
                              <<"s","e","p","t","e","m","b","e","r">>,
                              <<"o","c","t","o","b","e","r">>,
                              <<"n","o","v","e","m","b","e","r">>,
                              <<"d","e","c","e","m","b","e","r">>,
                              <<"j","a","n">>,
                              <<"f","e","b">>,
                              <<"m","a","r">>,
                              <<"a","p","r">>,
                              <<"m","a","y">>,
                              <<"j","u","n">>,
                              <<"j","u","l">>,
                              <<"a","u","g">>,
                              <<"s","e","p">>,
                              <<"s","e","p","t">>,
                              <<"o","c","t">>,
                              <<"n","o","v">>,
                              <<"d","e","c">>}),
                        Plus(Blank), DAY_NUMBER>>),
                  Cat(<<Rep(Digit, 4, 4), Lit("-"), Rep(Digit, 2, 2), Lit("-"), Rep(Digit, 2, 2)>>),
                  Cat(<<WordBoundary, DAY_NUMBER, Lit("/"), DAY_NUMBER>>),
                  Cat(<<WordBoundary, MONTH_PREFIX, Ws, DAY_NUMBER, Ws,
                        Alt(<<Str(<<"t","o">>), Lit("-"), Str(<<"t","h","r","o","u","g","h">>),
                              Str(<<"u","n","t","i","l">>)>>),
                        Ws, MONTH_PREFIX, Ws, DAY_NUMBER>>),
                  Cat(<<Plus(Digit), Ws, Words({<<"d","a","y">>, <<"n","i","g","h","t">>}),
                        Opt(Lit("s"))>>)>>
        \* \b[A-Z][a-z]+(?:\s+[A-Z][a-z]+)?\b
        CAPITALISED_WORD ==
            Cat(<<WordBoundary, UpperClass, Plus(LowerClass),
                  Opt(Cat(<<Plus(Blank), UpperClass, Plus(LowerClass)>>)), WordBoundary>>)
        \* \b(visit|visiting|trip to|going to|traveling to)\s+\w+
        TRAVEL_CONTEXT ==
            Cat(<<WordBoundary,
                  Words({<<"v","i","s","i","t">>,
                          <<"v","i","s","i","t","i","n","g">>,
                          <<"t","r","i","p"," ","t","o">>,
                          <<"g","o","i","n","g"," ","t","o">>,
                          <<"t","r","a","v","e","l","i","n","g"," ","t","o">>}),
                  Plus(Blank), Plus(Cls(WORDCHARS))>>)
        \* \b(canada|france|...|brazil)\b, line 688
        COUNTRY_NAME ==
            Cat(<<WordBoundary,
                  Words({<<"c","a","n","a","d","a">>,
                          <<"f","r","a","n","c","e">>,
                          <<"u","k">>,
                          <<"u","s","a">>,
                          <<"j","a","p","a","n">>,
                          <<"g","e","r","m","a","n","y">>,
                          <<"i","t","a","l","y">>,
                          <<"s","p","a","i","n">>,
                          <<"e","n","g","l","a","n","d">>,
                          <<"u","n","i","t","e","d"," ","s","t","a","t","e","s">>,
                          <<"u","n","i","t","e","d"," ","k","i","n","g","d","o","m">>,
                          <<"c","h","i","n","a">>,
                          <<"a","u","s","t","r","a","l","i","a">>,
                          <<"m","e","x","i","c","o">>,
                          <<"b","r","a","z","i","l">>}),
                  WordBoundary>>)
        \* \b{city_name}\b for the keys of CITY_COUNTRY_MAP, lines 45-113
        KNOWN_CITY ==
            Cat(<<WordBoundary,
                  Words({<<"t","o","r","o","n","t","o">>,
                          <<"v","a","n","c","o","u","v","e","r">>,
                          <<"m","o","n","t","r","e","a","l">>,
                          <<"c","a","l","g","a","r","y">>,
                          <<"o","t","t","a","w","a">>,
                          <<"w","i","n","n","i","p","e","g">>,
                          <<"e","d","m","o","n","t","o","n">>,
                          <<"q","u","e","b","e","c">>,
                          <<"n","e","w"," ","y","o","r","k">>,
                          <<"l","o","s"," ","a","n","g","e","l","e","s">>,
                          <<"c","h","i","c","a","g","o">>,
                          <<"h","o","u","s","t","o","n">>,
                          <<"p","h","o","e","n","i","x">>,
                          <<"p","h","i","l","a","d","e","l","p","h","i","a">>,
                          <<"s","a","n"," ","a","n","t","o","n","i","o">>,
                          <<"s","a","n"," ","d","i","e","g","o">>,
                          <<"d","a","l","l","a","s">>,
                          <<"s","a","n"," ","f","r","a","n","c","i","s","c","o">>,
                          <<"b","o","s","t","o","n">>,
                          <<"s","e","a","t","t","l","e">>,
                          <<"d","e","n","v","e","r">>,
                          <<"m","i","a","m","i">>,
                          <<"l","a","s"," ","v","e","g","a","s">>,
                          <<"o","r","l","a","n","d","o">>,
                          <<"p","a","r","i","s">>,
                          <<"l","o","n","d","o","n">>,
                          <<"b","e","r","l","i","n">>,
                          <<"r","o","m","e">>,
                          <<"m","a","d","r","i","d">>,
                          <<"b","a","r","c","e","l","o","n","a">>,
                          <<"a","m","s","t","e","r","d","a","m">>,
                          <<"v","i","e","n","n","a">>,
                          <<"p","r","a","g","u","e">>,
                          <<"b","a","n","g","k","o","k">>,
                          <<"z","u","r","i","c","h">>,
                          <<"l","i","s","b","o","n">>,
                          <<"d","u","b","l","i","n">>,
                          <<"a","t","h","e","n","s">>,
                          <<"i","s","t","a","n","b","u","l">>,
                          <<"t","o","k","y","o">>,
                          <<"b","e","i","j","i","n","g">>,
                          <<"s","h","a","n","g","h","a","i">>,
                          <<"h","o","n","g"," ","k","o","n","g">>,
                          <<"s","i","n","g","a","p","o","r","e">>,
                          <<"s","e","o","u","l">>,
                          <<"d","e","l","h","i">>,
                          <<"m","u","m","b","a","i">>,
                          <<"s","y","d","n","e","y">>,
                          <<"m","e","l","b","o","u","r","n","e">>,
                          <<"b","r","i","s","b","a","n","e">>,
                          <<"p","e","r","t","h">>,
                          <<"a","u","c","k","l","a","n","d">>,
                          <<"b","u","e","n","o","s"," ","a","i","r","e","s">>,
                          <<"r","i","o"," ","d","e"," ","j","a","n","e","i","r","o">>,
                          <<"s","a","o"," ","p","a","u","l","o">>,
                          <<"s","a","n","t","i","a","g","o">>,
                          <<"l","i","m","a">>,
                          <<"b","o","g","o","t","a">>}),
                  WordBoundary>>)
        \* \b(relaxed|relax|...|laid.?back|...|hectic)\b, line 724
        PACE_WORD ==
            Cat(<<WordBoundary,
                  Alt(<<Str(<<"r","e","l","a","x","e","d">>),
                        Str(<<"r","e","l","a","x">>),
                        Str(<<"m","o","d","e","r","a","t","e">>),
                        Str(<<"p","a","c","k","e","d">>),
                        Str(<<"f","a","s","t">>),
                        Str(<<"s","l","o","w">>),
                        Str(<<"c","h","i","l","l">>),
                        Str(<<"b","u","s","y">>),
                        Str(<<"e","a","s","y">>),
                        Cat(<<Str(<<"l","a","i","d">>), Opt(AnyChar), Str(<<"b","a","c","k">>)>>),
                        Str(<<"n","o","r","m","a","l">>),
                        Str(<<"b","a","l","a","n","c","e","d">>),
                        Str(<<"i","n","t","e","n","s","e">>),
                        Str(<<"h","e","c","t","i","c">>)>>),
                  WordBoundary>>)
        combined == JoinUserTexts(msgs, 1)
        combined_lower == Lower(combined)
        city_found == \/ ReSearch(CAPITALISED_WORD, combined, FALSE)
                      \/ ReSearch(TRAVEL_CONTEXT, combined_lower, FALSE)
        country_found == ReSearch(COUNTRY_NAME, combined_lower, FALSE)
        country_inferred == ReSearch(KNOWN_CITY, combined_lower, FALSE)
        date_found == \E k \in DOMAIN DATE_PATTERNS :
                          ReSearch(DATE_PATTERNS[k], combined_lower, FALSE)
        pace_found == ReSearch(PACE_WORD, combined_lower, FALSE)
    IN  (IF city_found THEN <<>> ELSE <<REQUIRED_FIELDS[1]>>)
            \o (IF country_found \/ country_inferred THEN <<>> ELSE <<REQUIRED_FIELDS[2]>>)
            \o (IF date_found THEN <<>> ELSE <<REQUIRED_FIELDS[3]>>)
            \o (IF pace_found THEN <<>> ELSE <<REQUIRED_FIELDS[4]>>)


(***************************************************************************)
(* _extract_venue_names_from_itinerary, itinerary_orchestrator.py lines    *)
(* 651-665: the matches of  EM_DASH \s*(.+?)\s*\(Source:  from left to     *)
(* right, each name once                                                   *)
(***************************************************************************)

\* the match that starts at the dash at position d, if there is one: \s* takes
\* as much as it can, the group as little as it can
VenueMatchAt(text, d) ==
    LET SOURCE_OPEN == <<"(","S","o","u","r","c","e",":">>
        SourcePositions ==
            {p \in 1..(Len(text) - Len(SOURCE_OPEN) + 1) :
                \A j \in DOMAIN SOURCE_OPEN : text[p + j - 1] = SOURCE_OPEN[j]}
        \* the first position from i on that holds no whitespace, Len(text) + 1 if none
        NextNonWs(i) ==
            Min({j \in i..Len(text) : text[j] \notin WHITESPACE} \cup {Len(text) + 1})
        a == NextNonWs(d + 1)
        later == {p \in SourcePositions : p > a}
        p1 == Min(later)
        b1 == Max({j \in a..(p1 - 1) : text[j] \notin WHITESPACE})
        blanks == {j \in (d + 1)..(a - 1) : text[j] # "\n"}
    IN  IF a <= Len(text) /\ later # {} /\ \A j \in a..b1 : text[j] # "\n"
        THEN [found |-> TRUE, name |-> SubSeq(text, a, b1), end |-> p1 + Len(SOURCE_OPEN)]
        ELSE IF a \in SourcePositions /\ blanks # {}
        THEN [found |-> TRUE, name |-> <<>>, end |-> a + Len(SOURCE_OPEN)]
        ELSE [found |-> FALSE]

\* every match gives a name, seen before or not
RECURSIVE VenueNamesFrom_every_match(_, _, _)
VenueNamesFrom_every_match(text, pos, names) ==
    LET starts == {d \in pos..Len(text) : text[d] = EM_DASH /\ VenueMatchAt(text, d).found}
    IN  IF starts = {} THEN names
        ELSE LET m == VenueMatchAt(text, Min(starts))
             IN  VenueNamesFrom_every_match(text, m.end, Append(names, Strip(m.name)))

RECURSIVE VenueNamesFrom(_, _, _)
VenueNamesFrom(text, pos, names) ==
    LET starts == {d \in pos..Len(text) : text[d] = EM_DASH /\ VenueMatchAt(text, d).found}
    IN  IF starts = {} THEN names
        ELSE LET m == VenueMatchAt(text, Min(starts))
                 name == Strip(m.name)
             IN  VenueNamesFrom(text, m.end,
                                IF name # <<>> /\ name \notin Range(names)
                                THEN Append(names, name) ELSE names)

_extract_venue_names_from_itinerary(text) == VenueNamesFrom(text, 1, <<>>)

(***************************************************************************)
(* How a turn ends or waits                                                *)
(***************************************************************************)
\* turn returns its TurnResult, the transcript in it is msgs
Return(msgs, calls, text, phase, still_need, enrichment) ==
    /\ result' = [status |-> "returned", assistant_text |-> text, phase |-> phase,
                  still_need |-> still_need, enrichment |-> enrichment]
    /\ messages' = msgs
    /\ llm_calls' = calls
    /\ phases' = Append(phases, phase)
    /\ pc' = "idle"

\* turn returns an apology in place of the reply
Raise_with_apology(msgs, calls) ==
    Return(Append(msgs, Message("assistant", <<"S","o","r","r","y",","," ","p","l","e","a","s","e"," ","t","r","y"," ","a","g","a","i","n",".">>)), calls,
           <<"S","o","r","r","y",","," ","p","l","e","a","s","e"," ","t","r","y"," ","a","g","a","i","n",".">>, "intake", None, None)

\* turn raises
Raise(msgs, calls) ==
    /\ result' = [status |-> "raised"]
    /\ messages' = msgs
    /\ llm_calls' = calls
    /\ UNCHANGED phases
    /\ pc' = "idle"

\* the coroutine waits for what it has started
Await(at, msgs, calls) ==
    /\ pc' = at
    /\ messages' = msgs
    /\ llm_calls' = calls
    /\ UNCHANGED <<phases, result>>

\* the except block of lines 395-399 and 561-565: GeminiClient() raises without a key
HandlerRaises(outcome) ==
    outcome.kind = "raises" /\ ~gemini_client /\ ~gemini_key

AfterGroq(outcome) ==
    IF outcome.kind = "raises" /\ ~HandlerRaises(outcome)
    THEN gemini_client' = TRUE /\ use_gemini' = TRUE
    ELSE UNCHANGED flagVars

(***************************************************************************)
(* _intake_turn, conversation_service.py lines 373-440                     *)
(***************************************************************************)
\* the phase is read from the reply as the LLM gave it, tracking lines included
FinishIntake_phase_of_raw_reply(msgs, calls, reply) ==
    LET tracked == _parse_still_need(reply)
        still_need == IF tracked = None
                      THEN _validate_fields_from_conversation(msgs)
                      ELSE tracked.some
        response_text == CleanResponse(reply)
    IN  Return(Append(msgs, Message("assistant", response_text)), calls, response_text,
               IntakePhase(reply), Some(still_need), None)

\* an empty declared list is taken for a missing one and derived again
FinishIntake_rederives_empty_list(msgs, calls, reply) ==
    LET tracked == _parse_still_need(reply)
        still_need == IF tracked = None \/ tracked = Some(<<>>)
                      THEN _validate_fields_from_conversation(msgs)
                      ELSE tracked.some
        response_text == CleanResponse(reply)
    IN  Return(Append(msgs, Message("assistant", response_text)), calls, response_text,
               IntakePhase(response_text), Some(still_need), None)

\* lines 415-440
FinishIntake(msgs, calls, reply) ==
    LET tracked == _parse_still_need(reply)
        still_need == IF tracked = None
                      THEN _validate_fields_from_conversation(msgs)
                      ELSE tracked.some
        response_text == CleanResponse(reply)
    IN  Return(Append(msgs, Message("assistant", response_text)), calls, response_text,
               IntakePhase(response_text), Some(still_need), None)

\* lines 401-413
IntakeFallback(msgs, calls, can_gemini) ==
    IF can_gemini
    THEN Await("intake_gemini", msgs,
               Append(calls, LLMCall("intake", "gemini", msgs, 1024)))
    ELSE Raise(msgs, calls)

\* the turn goes on with the transcript as it was given, system message or not
_intake_turn_as_given(msgs) ==
    IF use_groq
    THEN Await("intake_groq", msgs, <<LLMCall("intake", "groq", msgs, 1024)>>)
    ELSE IntakeFallback(msgs, <<>>, use_gemini)

\* lines 377-394
_intake_turn(msgs) ==
    LET m == IF msgs = <<>> \/ msgs[1].role # "system"
             THEN <<Message("system", INTAKE_SYSTEM_PROMPT)>> \o msgs
             ELSE msgs
    IN  IF use_groq
        THEN Await("intake_groq", m, <<LLMCall("intake", "groq", m, 1024)>>)
        ELSE IntakeFallback(m, <<>>, use_gemini)

\* the Groq call of _intake_turn returns or raises (lines 386-413)
IntakeGroqDone(outcome) ==
    /\ pc = "intake_groq"
    /\ AfterGroq(outcome)
    /\ LET calls == Settle(llm_calls, outcome)
           response_text == ResponseText(outcome)
       IN  IF HandlerRaises(outcome) THEN Raise(messages, calls)
           ELSE IF NoResponse(response_text)
           THEN IntakeFallback(messages, calls, outcome.kind = "raises" \/ use_gemini)
           ELSE FinishIntake(messages, calls, response_text)
    /\ UNCHANGED <<constVars, argVars, legacy_venues>>

\* the Gemini call of _intake_turn returns or raises (lines 403-413)
IntakeGeminiDone(outcome) ==
    /\ pc = "intake_gemini"
    /\ LET calls == Settle(llm_calls, outcome)
           response_text == ResponseText(outcome)
       IN  IF outcome.kind = "raises" \/ NoResponse(response_text)
           THEN Raise(messages, calls)
           ELSE FinishIntake(messages, calls, response_text)
    /\ UNCHANGED <<svcVars, argVars, legacy_venues>>

(***************************************************************************)
(* _generate_grounded_itinerary, the path of lines 492-582                 *)
(***************************************************************************)
\* the fallback tries Groq once more before it turns to Gemini
LegacyFallback_retry_groq(msgs, calls, im, can_gemini) ==
    IF use_groq /\ Len(calls) < 2
    THEN Await("legacy_groq", msgs, Append(calls, LLMCall("legacy", "groq", im, 4096)))
    ELSE IF can_gemini
    THEN Await("legacy_gemini", msgs, Append(calls, LLMCall("legacy", "gemini", im, 4096)))
    ELSE Raise(msgs, calls)

\* lines 566-578
LegacyFallback(msgs, calls, im, can_gemini) ==
    IF can_gemini
    THEN Await("legacy_gemini", msgs, Append(calls, LLMCall("legacy", "gemini", im, 4096)))
    ELSE Raise(msgs, calls)

\* the catalogue is the rows of the query, none included
LegacyLLM_no_fallback(msgs, calls, found) ==
    LET system == [template |-> "conversation_service.ITINERARY_SYSTEM_PROMPT_TEMPLATE",
                   venue_catalogue |-> format_venues_for_chat(found)]
        im == ItineraryMessages(system, msgs)
    IN  IF use_groq
        THEN Await("legacy_groq", msgs, Append(calls, LLMCall("legacy", "groq", im, 4096)))
        ELSE LegacyFallback(msgs, calls, im, use_gemini)

\* lines 517-559
LegacyLLM(msgs, calls, found) ==
    LET venues == IF found = <<>> THEN TORONTO_FALLBACK_VENUES ELSE found
        system == [template |-> "conversation_service.ITINERARY_SYSTEM_PROMPT_TEMPLATE",
                   venue_catalogue |-> format_venues_for_chat(venues)]
        im == ItineraryMessages(system, msgs)
    IN  IF use_groq
        THEN Await("legacy_groq", msgs, Append(calls, LLMCall("legacy", "groq", im, 4096)))
        ELSE LegacyFallback(msgs, calls, im, use_gemini)

\* lines 493-515
StartLegacy(msgs, calls) ==
    IF venue_service
    THEN legacy_venues' = ([st |-> "running"]) /\ Await("legacy_venues", msgs, calls)
    ELSE legacy_venues' = Done(NotCalled) /\ LegacyLLM(msgs, calls, <<>>)

\* get_all_venues_for_city is back from the executor (lines 511-515)
LegacyVenuesDone(outcome) ==
    /\ pc = "legacy_venues"
    /\ legacy_venues' = Done(outcome)
    /\ LegacyLLM(messages, llm_calls, get_all_venues_for_city(outcome))
    /\ UNCHANGED <<svcVars, argVars>>

\* the legacy path returns the required fields as still missing
FinishLegacy_with_still_need(msgs, calls, response_text) ==
    Return(Append(msgs, Message("assistant", response_text)), calls, response_text,
           "itinerary", Some(REQUIRED_FIELDS), None)

\* lines 577-582
FinishLegacy(msgs, calls, response_text) ==
    Return(Append(msgs, Message("assistant", response_text)), calls, response_text,
           "itinerary", None, None)

\* the Groq call returns or raises (lines 552-578)
LegacyGroqDone(outcome) ==
    /\ pc = "legacy_groq"
    /\ AfterGroq(outcome)
    /\ LET calls == Settle(llm_calls, outcome)
           response_text == ResponseText(outcome)
       IN  IF HandlerRaises(outcome) THEN Raise(messages, calls)
           ELSE IF NoResponse(response_text)
           THEN LegacyFallback(messages, calls, llm_calls[Len(llm_calls)].messages,
                               outcome.kind = "raises" \/ use_gemini)
           ELSE FinishLegacy(messages, calls, response_text)
    /\ UNCHANGED <<constVars, argVars, legacy_venues>>

\* the Gemini call returns or raises (lines 566-578)
LegacyGeminiDone(outcome) ==
    /\ pc = "legacy_gemini"
    /\ LET calls == Settle(llm_calls, outcome)
           response_text == ResponseText(outcome)
       IN  IF outcome.kind = "raises" \/ NoResponse(response_text)
           THEN Raise(messages, calls)
           ELSE FinishLegacy(messages, calls, response_text)
    /\ UNCHANGED <<svcVars, argVars, legacy_venues>>

(***************************************************************************)
(* int(), format() and datetime.strptime as the extractor uses them        *)
(***************************************************************************)
\* the one-element token that stands for the en dash U+2013
EN_DASH == "u2013"

DIGIT_CHARS == <<"0","1","2","3","4","5","6","7","8","9">>

\* int(text) for a text of decimal digits
RECURSIVE ParseInt(_)
ParseInt(text) ==
    IF text = <<>> THEN 0
    ELSE 10 * ParseInt(SubSeq(text, 1, Len(text) - 1))
            + ((CHOOSE k \in DOMAIN DIGIT_CHARS : DIGIT_CHARS[k] = text[Len(text)]) - 1)

\* format(n, "0<width>d") for n >= 0
RECURSIVE FormatInt(_, _)
FormatInt(n, width) ==
    IF n < 10 /\ width <= 1 THEN <<DIGIT_CHARS[n + 1]>>
    ELSE FormatInt(n \div 10, width - 1) \o <<DIGIT_CHARS[(n % 10) + 1]>>

\* datetime.strptime(date, "%Y-%m-%d") for a text dddd-dd-dd, as the day number
\* date.toordinal() gives; None stands for the ValueError of a date that is not in
\* the calendar
strptime(date) ==
    LET y == ParseInt(SubSeq(date, 1, 4))
        m == ParseInt(SubSeq(date, 6, 7))
        d == ParseInt(SubSeq(date, 9, 10))
        leap == y % 4 = 0 /\ (y % 100 # 0 \/ y % 400 = 0)
        days == <<31, IF leap THEN 29 ELSE 28, 31, 30, 31, 30, 31, 31, 30, 31, 30, 31>>
        RECURSIVE Before(_)
        Before(k) == IF k = 0 THEN 0 ELSE days[k] + Before(k - 1)
    IN  IF y < 1 \/ m < 1 \/ m > 12 \/ d < 1 THEN None
        ELSE IF d > days[m] THEN None
        ELSE Some(365 * (y - 1) + ((y - 1) \div 4) - ((y - 1) \div 100) + ((y - 1) \div 400)
                      + Before(m - 1) + d)

(***************************************************************************)
(* re.search with groups: the pattern is the sequence of its parts. The    *)
(* match starts at the first position from which the parts match one after *)
(* the other, and each part, greedy, ends at the last position from which  *)
(* the parts after it still match.                                         *)
(***************************************************************************)
\* None, or Some(<<start, end of part 1 + 1, ..., end of the last part + 1>>)
ReGroups(parts, s, from, ic) ==
    LET n == Len(parts)
        RECURSIVE CanFinish(_, _)
        CanFinish(j, i) ==
            IF j > n THEN TRUE
            ELSE \E e \in Ends(parts[j], s, i, ic) : CanFinish(j + 1, e)
        RECURSIVE Path(_, _)
        Path(j, i) ==
            IF j > n THEN <<>>
            ELSE LET e == Max({x \in Ends(parts[j], s, i, ic) : CanFinish(j + 1, x)})
                 IN  <<e>> \o Path(j + 1, e)
        starts == {i \in from..(Len(s) + 1) : CanFinish(1, i)}
    IN  IF starts = {} THEN None
        ELSE Some(<<Min(starts)>> \o Path(1, Min(starts)))

\* match.group of the k-th part
Group(s, m, k) == Slice(s, m[k], m[k + 1] - 1)

(***************************************************************************)
(* models/trip_preferences.py: the dataclass TripPreferences               *)
(***************************************************************************)
\* PACE_SYNONYMS, lines 36-52
PACE_SYNONYMS ==
    (<<"r","e","l","a","x">> :> <<"r","e","l","a","x","e","d">>)
        @@ (<<"r","e","l","a","x","e","d">> :> <<"r","e","l","a","x","e","d">>)
        @@ (<<"r","e","l","a","x","i","n","g">> :> <<"r","e","l","a","x","e","d">>)
        @@ (<<"c","h","i","l","l">> :> <<"r","e","l","a","x","e","d">>)
        @@ (<<"c","h","i","l","l","e","d">> :> <<"r","e","l","a","x","e","d">>)
        @@ (<<"c","h","i","l","l","i","n","g">> :> <<"r","e","l","a","x","e","d">>)
        @@ (<<"s","l","o","w">> :> <<"r","e","l","a","x","e","d">>)
        @@ (<<"l","a","z","y">> :> <<"r","e","l","a","x","e","d">>)
        @@ (<<"l","e","i","s","u","r","e","l","y">> :> <<"r","e","l","a","x","e","d">>)
        @@ (<<"e","a","s","y">> :> <<"r","e","l","a","x","e","d">>)
        @@ (<<"e","a","s","y","g","o","i","n","g">> :> <<"r","e","l","a","x","e","d">>)
        @@ (<<"c","a","s","u","a","l">> :> <<"r","e","l","a","x","e","d">>)
        @@ (<<"l","a","i","d","-","b","a","c","k">> :> <<"r","e","l","a","x","e","d">>)
        @@ (<<"l","a","i","d"," ","b","a","c","k">> :> <<"r","e","l","a","x","e","d">>)
        @@ (<<"l","a","i","d","b","a","c","k">> :> <<"r","e","l","a","x","e","d">>)
        @@ (<<"m","o","d","e","r","a","t","e">> :> <<"m","o","d","e","r","a","t","e">>)
        @@ (<<"m","e","d","i","u","m">> :> <<"m","o","d","e","r","a","t","e">>)
        @@ (<<"b","a","l","a","n","c","e","d">> :> <<"m","o","d","e","r","a","t","e">>)
        @@ (<<"n","o","r","m","a","l">> :> <<"m","o","d","e","r","a","t","e">>)
        @@ (<<"a","v","e","r","a","g","e">> :> <<"m","o","d","e","r","a","t","e">>)
        @@ (<<"s","t","e","a","d","y">> :> <<"m","o","d","e","r","a","t","e">>)
        @@ (<<"p","a","c","k","e","d">> :> <<"p","a","c","k","e","d">>)
        @@ (<<"f","a","s","t">> :> <<"p","a","c","k","e","d">>)
        @@ (<<"r","u","s","h">> :> <<"p","a","c","k","e","d">>)
        @@ (<<"r","u","s","h","e","d">> :> <<"p","a","c","k","e","d">>)
        @@ (<<"b","u","s","y">> :> <<"p","a","c","k","e","d">>)
        @@ (<<"i","n","t","e","n","s","e">> :> <<"p","a","c","k","e","d">>)
        @@ (<<"a","c","t","i","v","e">> :> <<"p","a","c","k","e","d">>)
        @@ (<<"a","g","g","r","e","s","s","i","v","e">> :> <<"p","a","c","k","e","d">>)
        @@ (<<"r","a","p","i","d">> :> <<"p","a","c","k","e","d">>)
        @@ (<<"h","e","c","t","i","c">> :> <<"p","a","c","k","e","d">>)
        @@ (<<"j","a","m","-","p","a","c","k","e","d">> :> <<"p","a","c","k","e","d">>)
        @@ (<<"j","a","m"," ","p","a","c","k","e","d">> :> <<"p","a","c","k","e","d">>)
        @@ (<<"f","u","l","l">> :> <<"p","a","c","k","e","d">>)
        @@ (<<"n","o","n","-","s","t","o","p">> :> <<"p","a","c","k","e","d">>)
        @@ (<<"n","o","n","s","t","o","p">> :> <<"p","a","c","k","e","d">>)

\* VALID_CATEGORIES, lines 58-64, in the order sorted() gives them
VALID_CATEGORIES ==
    <<<<"C","u","l","t","u","r","e"," ","a","n","d"," ","H","i","s","t","o","r","y">>,
      <<"E","n","t","e","r","t","a","i","n","m","e","n","t">>,
      <<"F","o","o","d"," ","a","n","d"," ","B","e","v","e","r","a","g","e">>,
      <<"N","a","t","u","r","a","l"," ","P","l","a","c","e">>,
      <<"S","p","o","r","t">>>>

\* INTEREST_KEYWORDS, lines 67-171, in the order of the dict: <<keyword, category>>
INTEREST_KEYWORDS ==
    <<<<<<"f","o","o","d">>, <<"F","o","o","d"," ","a","n","d"," ","B","e","v","e","r","a","g","e">>>>,
      <<<<"b","e","v","e","r","a","g","e">>, <<"F","o","o","d"," ","a","n","d"," ","B","e","v","e","r","a","g","e">>>>,
      <<<<"f","o","o","d"," ","t","o","u","r">>, <<"F","o","o","d"," ","a","n","d"," ","B","e","v","e","r","a","g","e">>>>,
      <<<<"f","o","o","d"," ","t","o","u","r","s">>, <<"F","o","o","d"," ","a","n","d"," ","B","e","v","e","r","a","g","e">>>>,
      <<<<"r","e","s","t","a","u","r","a","n","t">>, <<"F","o","o","d"," ","a","n","d"," ","B","e","v","e","r","a","g","e">>>>,
      <<<<"r","e","s","t","a","u","r","a","n","t","s">>, <<"F","o","o","d"," ","a","n","d"," ","B","e","v","e","r","a","g","e">>>>,
      <<<<"d","i","n","i","n","g">>, <<"F","o","o","d"," ","a","n","d"," ","B","e","v","e","r","a","g","e">>>>,
      <<<<"e","a","t">>, <<"F","o","o","d"," ","a","n","d"," ","B","e","v","e","r","a","g","e">>>>,
      <<<<"e","a","t","i","n","g">>, <<"F","o","o","d"," ","a","n","d"," ","B","e","v","e","r","a","g","e">>>>,
      <<<<"c","u","i","s","i","n","e">>, <<"F","o","o","d"," ","a","n","d"," ","B","e","v","e","r","a","g","e">>>>,
      <<<<"c","o","f","f","e","e">>, <<"F","o","o","d"," ","a","n","d"," ","B","e","v","e","r","a","g","e">>>>,
      <<<<"c","a","f","e">>, <<"F","o","o","d"," ","a","n","d"," ","B","e","v","e","r","a","g","e">>>>,
      <<<<"b","a","k","e","r","y">>, <<"F","o","o","d"," ","a","n","d"," ","B","e","v","e","r","a","g","e">>>>,
      <<<<"b","r","e","w","e","r","y">>, <<"F","o","o","d"," ","a","n","d"," ","B","e","v","e","r","a","g","e">>>>,
      <<<<"w","i","n","e","r","y">>, <<"F","o","o","d"," ","a","n","d"," ","B","e","v","e","r","a","g","e">>>>,
      <<<<"w","i","n","e">>, <<"F","o","o","d"," ","a","n","d"," ","B","e","v","e","r","a","g","e">>>>,
      <<<<"b","e","e","r">>, <<"F","o","o","d"," ","a","n","d"," ","B","e","v","e","r","a","g","e">>>>,
      <<<<"c","o","c","k","t","a","i","l">>, <<"F","o","o","d"," ","a","n","d"," ","B","e","v","e","r","a","g","e">>>>,
      <<<<"c","o","c","k","t","a","i","l","s">>, <<"F","o","o","d"," ","a","n","d"," ","B","e","v","e","r","a","g","e">>>>,
      <<<<"d","r","i","n","k">>, <<"F","o","o","d"," ","a","n","d"," ","B","e","v","e","r","a","g","e">>>>,
      <<<<"d","r","i","n","k","s">>, <<"F","o","o","d"," ","a","n","d"," ","B","e","v","e","r","a","g","e">>>>,
      <<<<"s","t","r","e","e","t"," ","f","o","o","d">>, <<"F","o","o","d"," ","a","n","d"," ","B","e","v","e","r","a","g","e">>>>,
      <<<<"c","o","o","k","i","n","g">>, <<"F","o","o","d"," ","a","n","d"," ","B","e","v","e","r","a","g","e">>>>,
      <<<<"b","r","u","n","c","h">>, <<"F","o","o","d"," ","a","n","d"," ","B","e","v","e","r","a","g","e">>>>,
      <<<<"b","r","e","a","k","f","a","s","t">>, <<"F","o","o","d"," ","a","n","d"," ","B","e","v","e","r","a","g","e">>>>,
      <<<<"l","u","n","c","h">>, <<"F","o","o","d"," ","a","n","d"," ","B","e","v","e","r","a","g","e">>>>,
      <<<<"d","i","n","n","e","r">>, <<"F","o","o","d"," ","a","n","d"," ","B","e","v","e","r","a","g","e">>>>,
      <<<<"d","e","s","s","e","r","t">>, <<"F","o","o","d"," ","a","n","d"," ","B","e","v","e","r","a","g","e">>>>,
      <<<<"t","a","s","t","i","n","g">>, <<"F","o","o","d"," ","a","n","d"," ","B","e","v","e","r","a","g","e">>>>,
      <<<<"f","o","o","d","i","e">>, <<"F","o","o","d"," ","a","n","d"," ","B","e","v","e","r","a","g","e">>>>,
      <<<<"c","u","l","i","n","a","r","y">>, <<"F","o","o","d"," ","a","n","d"," ","B","e","v","e","r","a","g","e">>>>,
      <<<<"l","o","c","a","l"," ","f","o","o","d">>, <<"F","o","o","d"," ","a","n","d"," ","B","e","v","e","r","a","g","e">>>>,
      <<<<"t","e","a">>, <<"F","o","o","d"," ","a","n","d"," ","B","e","v","e","r","a","g","e">>>>,
      <<<<"d","i","s","t","i","l","l","e","r","y">>, <<"F","o","o","d"," ","a","n","d"," ","B","e","v","e","r","a","g","e">>>>,
      <<<<"e","n","t","e","r","t","a","i","n","m","e","n","t">>, <<"E","n","t","e","r","t","a","i","n","m","e","n","t">>>>,
      <<<<"s","h","o","p","p","i","n","g">>, <<"E","n","t","e","r","t","a","i","n","m","e","n","t">>>>,
      <<<<"c","a","s","i","n","o">>, <<"E","n","t","e","r","t","a","i","n","m","e","n","t">>>>,
      <<<<"s","p","a">>, <<"E","n","t","e","r","t","a","i","n","m","e","n","t">>>>,
      <<<<"b","a","r">>, <<"E","n","t","e","r","t","a","i","n","m","e","n","t">>>>,
      <<<<"b","a","r","s">>, <<"E","n","t","e","r","t","a","i","n","m","e","n","t">>>>,
      <<<<"p","u","b">>, <<"E","n","t","e","r","t","a","i","n","m","e","n","t">>>>,
      <<<<"p","u","b","s">>, <<"E","n","t","e","r","t","a","i","n","m","e","n","t">>>>,
      <<<<"a","r","c","a","d","e">>, <<"E","n","t","e","r","t","a","i","n","m","e","n","t">>>>,
      <<<<"n","i","g","h","t","l","i","f","e">>, <<"E","n","t","e","r","t","a","i","n","m","e","n","t">>>>,
      <<<<"c","l","u","b">>, <<"E","n","t","e","r","t","a","i","n","m","e","n","t">>>>,
      <<<<"c","l","u","b","s">>, <<"E","n","t","e","r","t","a","i","n","m","e","n","t">>>>,
      <<<<"n","i","g","h","t","c","l","u","b">>, <<"E","n","t","e","r","t","a","i","n","m","e","n","t">>>>,
      <<<<"k","a","r","a","o","k","e">>, <<"E","n","t","e","r","t","a","i","n","m","e","n","t">>>>,
      <<<<"c","i","n","e","m","a">>, <<"E","n","t","e","r","t","a","i","n","m","e","n","t">>>>,
      <<<<"m","o","v","i","e">>, <<"E","n","t","e","r","t","a","i","n","m","e","n","t">>>>,
      <<<<"m","o","v","i","e","s">>, <<"E","n","t","e","r","t","a","i","n","m","e","n","t">>>>,
      <<<<"t","h","e","a","t","e","r">>, <<"E","n","t","e","r","t","a","i","n","m","e","n","t">>>>,
      <<<<"t","h","e","a","t","r","e">>, <<"E","n","t","e","r","t","a","i","n","m","e","n","t">>>>,
      <<<<"c","o","n","c","e","r","t">>, <<"E","n","t","e","r","t","a","i","n","m","e","n","t">>>>,
      <<<<"c","o","n","c","e","r","t","s">>, <<"E","n","t","e","r","t","a","i","n","m","e","n","t">>>>,
      <<<<"l","i","v","e"," ","m","u","s","i","c">>, <<"E","n","t","e","r","t","a","i","n","m","e","n","t">>>>,
      <<<<"m","u","s","i","c">>, <<"E","n","t","e","r","t","a","i","n","m","e","n","t">>>>,
      <<<<"f","e","s","t","i","v","a","l">>, <<"E","n","t","e","r","t","a","i","n","m","e","n","t">>>>,
      <<<<"f","e","s","t","i","v","a","l","s">>, <<"E","n","t","e","r","t","a","i","n","m","e","n","t">>>>,
      <<<<"a","m","u","s","e","m","e","n","t"," ","p","a","r","k">>, <<"E","n","t","e","r","t","a","i","n","m","e","n","t">>>>,
      <<<<"t","h","e","m","e"," ","p","a","r","k">>, <<"E","n","t","e","r","t","a","i","n","m","e","n","t">>>>,
      <<<<"w","a","t","e","r","p","a","r","k">>, <<"E","n","t","e","r","t","a","i","n","m","e","n","t">>>>,
      <<<<"b","o","w","l","i","n","g">>, <<"E","n","t","e","r","t","a","i","n","m","e","n","t">>>>,
      <<<<"e","s","c","a","p","e"," ","r","o","o","m">>, <<"E","n","t","e","r","t","a","i","n","m","e","n","t">>>>,
      <<<<"z","o","o">>, <<"E","n","t","e","r","t","a","i","n","m","e","n","t">>>>,
      <<<<"a","q","u","a","r","i","u","m">>, <<"E","n","t","e","r","t","a","i","n","m","e","n","t">>>>,
      <<<<"m","a","l","l">>, <<"E","n","t","e","r","t","a","i","n","m","e","n","t">>>>,
      <<<<"m","a","r","k","e","t">>, <<"E","n","t","e","r","t","a","i","n","m","e","n","t">>>>,
      <<<<"m","a","r","k","e","t","s">>, <<"E","n","t","e","r","t","a","i","n","m","e","n","t">>>>,
      <<<<"m","a","s","s","a","g","e">>, <<"E","n","t","e","r","t","a","i","n","m","e","n","t">>>>,
      <<<<"w","e","l","l","n","e","s","s">>, <<"E","n","t","e","r","t","a","i","n","m","e","n","t">>>>,
      <<<<"y","o","g","a">>, <<"E","n","t","e","r","t","a","i","n","m","e","n","t">>>>,
      <<<<"c","u","l","t","u","r","e">>, <<"C","u","l","t","u","r","e"," ","a","n","d"," ","H","i","s","t","o","r","y">>>>,
      <<<<"h","i","s","t","o","r","y">>, <<"C","u","l","t","u","r","e"," ","a","n","d"," ","H","i","s","t","o","r","y">>>>,
      <<<<"m","u","s","e","u","m">>, <<"C","u","l","t","u","r","e"," ","a","n","d"," ","H","i","s","t","o","r","y">>>>,
      <<<<"m","u","s","e","u","m","s">>, <<"C","u","l","t","u","r","e"," ","a","n","d"," ","H","i","s","t","o","r","y">>>>,
      <<<<"l","i","b","r","a","r","y">>, <<"C","u","l","t","u","r","e"," ","a","n","d"," ","H","i","s","t","o","r","y">>>>,
      <<<<"l","i","b","r","a","r","i","e","s">>, <<"C","u","l","t","u","r","e"," ","a","n","d"," ","H","i","s","t","o","r","y">>>>,
      <<<<"c","h","u","r","c","h">>, <<"C","u","l","t","u","r","e"," ","a","n","d"," ","H","i","s","t","o","r","y">>>>,
      <<<<"c","h","u","r","c","h","e","s">>, <<"C","u","l","t","u","r","e"," ","a","n","d"," ","H","i","s","t","o","r","y">>>>,
      <<<<"c","a","t","h","e","d","r","a","l">>, <<"C","u","l","t","u","r","e"," ","a","n","d"," ","H","i","s","t","o","r","y">>>>,
      <<<<"t","e","m","p","l","e">>, <<"C","u","l","t","u","r","e"," ","a","n","d"," ","H","i","s","t","o","r","y">>>>,
      <<<<"m","o","s","q","u","e">>, <<"C","u","l","t","u","r","e"," ","a","n","d"," ","H","i","s","t","o","r","y">>>>,
      <<<<"p","y","r","a","m","i","d">>, <<"C","u","l","t","u","r","e"," ","a","n","d"," ","H","i","s","t","o","r","y">>>>,
      <<<<"p","y","r","a","m","i","d","s">>, <<"C","u","l","t","u","r","e"," ","a","n","d"," ","H","i","s","t","o","r","y">>>>,
      <<<<"o","l","d"," ","q","u","a","r","t","e","r">>, <<"C","u","l","t","u","r","e"," ","a","n","d"," ","H","i","s","t","o","r","y">>>>,
      <<<<"o","l","d"," ","q","u","a","r","t","e","r","s">>, <<"C","u","l","t","u","r","e"," ","a","n","d"," ","H","i","s","t","o","r","y">>>>,
      <<<<"o","l","d"," ","t","o","w","n">>, <<"C","u","l","t","u","r","e"," ","a","n","d"," ","H","i","s","t","o","r","y">>>>,
      <<<<"f","o","r","t","r","e","s","s">>, <<"C","u","l","t","u","r","e"," ","a","n","d"," ","H","i","s","t","o","r","y">>>>,
      <<<<"c","a","s","t","l","e">>, <<"C","u","l","t","u","r","e"," ","a","n","d"," ","H","i","s","t","o","r","y">>>>,
      <<<<"c","a","s","t","l","e","s">>, <<"C","u","l","t","u","r","e"," ","a","n","d"," ","H","i","s","t","o","r","y">>>>,
      <<<<"p","a","l","a","c","e">>, <<"C","u","l","t","u","r","e"," ","a","n","d"," ","H","i","s","t","o","r","y">>>>,
      <<<<"p","a","l","a","c","e","s">>, <<"C","u","l","t","u","r","e"," ","a","n","d"," ","H","i","s","t","o","r","y">>>>,
      <<<<"m","o","n","u","m","e","n","t">>, <<"C","u","l","t","u","r","e"," ","a","n","d"," ","H","i","s","t","o","r","y">>>>,
      <<<<"m","o","n","u","m","e","n","t","s">>, <<"C","u","l","t","u","r","e"," ","a","n","d"," ","H","i","s","t","o","r","y">>>>,
      <<<<"h","e","r","i","t","a","g","e">>, <<"C","u","l","t","u","r","e"," ","a","n","d"," ","H","i","s","t","o","r","y">>>>,
      <<<<"h","i","s","t","o","r","i","c">>, <<"C","u","l","t","u","r","e"," ","a","n","d"," ","H","i","s","t","o","r","y">>>>,
      <<<<"h","i","s","t","o","r","i","c","a","l">>, <<"C","u","l","t","u","r","e"," ","a","n","d"," ","H","i","s","t","o","r","y">>>>,
      <<<<"r","u","i","n","s">>, <<"C","u","l","t","u","r","e"," ","a","n","d"," ","H","i","s","t","o","r","y">>>>,
      <<<<"a","r","c","h","a","e","o","l","o","g","y">>, <<"C","u","l","t","u","r","e"," ","a","n","d"," ","H","i","s","t","o","r","y">>>>,
      <<<<"a","r","t">>, <<"C","u","l","t","u","r","e"," ","a","n","d"," ","H","i","s","t","o","r","y">>>>,
      <<<<"a","r","t"," ","g","a","l","l","e","r","y">>, <<"C","u","l","t","u","r","e"," ","a","n","d"," ","H","i","s","t","o","r","y">>>>,
      <<<<"g","a","l","l","e","r","y">>, <<"C","u","l","t","u","r","e"," ","a","n","d"," ","H","i","s","t","o","r","y">>>>,
      <<<<"g","a","l","l","e","r","i","e","s">>, <<"C","u","l","t","u","r","e"," ","a","n","d"," ","H","i","s","t","o","r","y">>>>,
      <<<<"a","r","c","h","i","t","e","c","t","u","r","e">>, <<"C","u","l","t","u","r","e"," ","a","n","d"," ","H","i","s","t","o","r","y">>>>,
      <<<<"l","a","n","d","m","a","r","k">>, <<"C","u","l","t","u","r","e"," ","a","n","d"," ","H","i","s","t","o","r","y">>>>,
      <<<<"l","a","n","d","m","a","r","k","s">>, <<"C","u","l","t","u","r","e"," ","a","n","d"," ","H","i","s","t","o","r","y">>>>,
      <<<<"m","e","m","o","r","i","a","l">>, <<"C","u","l","t","u","r","e"," ","a","n","d"," ","H","i","s","t","o","r","y">>>>,
      <<<<"f","o","r","t">>, <<"C","u","l","t","u","r","e"," ","a","n","d"," ","H","i","s","t","o","r","y">>>>,
      <<<<"s","i","g","h","t","s","e","e","i","n","g">>, <<"C","u","l","t","u","r","e"," ","a","n","d"," ","H","i","s","t","o","r","y">>>>,
      <<<<"s","i","g","h","t"," ","s","e","e","i","n","g">>, <<"C","u","l","t","u","r","e"," ","a","n","d"," ","H","i","s","t","o","r","y">>>>,
      <<<<"t","o","u","r">>, <<"C","u","l","t","u","r","e"," ","a","n","d"," ","H","i","s","t","o","r","y">>>>,
      <<<<"t","o","u","r","s">>, <<"C","u","l","t","u","r","e"," ","a","n","d"," ","H","i","s","t","o","r","y">>>>,
      <<<<"c","u","l","t","u","r","a","l">>, <<"C","u","l","t","u","r","e"," ","a","n","d"," ","H","i","s","t","o","r","y">>>>,
      <<<<"s","p","o","r","t">>, <<"S","p","o","r","t">>>>,
      <<<<"s","p","o","r","t","s">>, <<"S","p","o","r","t">>>>,
      <<<<"s","o","c","c","e","r">>, <<"S","p","o","r","t">>>>,
      <<<<"f","o","o","t","b","a","l","l">>, <<"S","p","o","r","t">>>>,
      <<<<"b","a","s","k","e","t","b","a","l","l">>, <<"S","p","o","r","t">>>>,
      <<<<"n","f","l">>, <<"S","p","o","r","t">>>>,
      <<<<"n","b","a">>, <<"S","p","o","r","t">>>>,
      <<<<"n","h","l">>, <<"S","p","o","r","t">>>>,
      <<<<"m","l","b">>, <<"S","p","o","r","t">>>>,
      <<<<"b","a","s","e","b","a","l","l">>, <<"S","p","o","r","t">>>>,
      <<<<"h","o","c","k","e","y">>, <<"S","p","o","r","t">>>>,
      <<<<"t","e","n","n","i","s">>, <<"S","p","o","r","t">>>>,
      <<<<"g","o","l","f">>, <<"S","p","o","r","t">>>>,
      <<<<"s","t","a","d","i","u","m">>, <<"S","p","o","r","t">>>>,
      <<<<"s","t","a","d","i","u","m","s">>, <<"S","p","o","r","t">>>>,
      <<<<"a","r","e","n","a">>, <<"S","p","o","r","t">>>>,
      <<<<"g","y","m">>, <<"S","p","o","r","t">>>>,
      <<<<"f","i","t","n","e","s","s">>, <<"S","p","o","r","t">>>>,
      <<<<"s","u","r","f","i","n","g">>, <<"S","p","o","r","t">>>>,
      <<<<"s","k","i","i","n","g">>, <<"S","p","o","r","t">>>>,
      <<<<"s","n","o","w","b","o","a","r","d","i","n","g">>, <<"S","p","o","r","t">>>>,
      <<<<"s","k","a","t","i","n","g">>, <<"S","p","o","r","t">>>>,
      <<<<"c","y","c","l","i","n","g">>, <<"S","p","o","r","t">>>>,
      <<<<"b","i","k","i","n","g">>, <<"S","p","o","r","t">>>>,
      <<<<"r","u","n","n","i","n","g">>, <<"S","p","o","r","t">>>>,
      <<<<"m","a","r","a","t","h","o","n">>, <<"S","p","o","r","t">>>>,
      <<<<"r","u","g","b","y">>, <<"S","p","o","r","t">>>>,
      <<<<"c","r","i","c","k","e","t">>, <<"S","p","o","r","t">>>>,
      <<<<"b","o","x","i","n","g">>, <<"S","p","o","r","t">>>>,
      <<<<"m","m","a">>, <<"S","p","o","r","t">>>>,
      <<<<"v","o","l","l","e","y","b","a","l","l">>, <<"S","p","o","r","t">>>>,
      <<<<"s","w","i","m","m","i","n","g">>, <<"S","p","o","r","t">>>>,
      <<<<"k","a","y","a","k","i","n","g">>, <<"S","p","o","r","t">>>>,
      <<<<"c","a","n","o","e","i","n","g">>, <<"S","p","o","r","t">>>>,
      <<<<"r","o","c","k"," ","c","l","i","m","b","i","n","g">>, <<"S","p","o","r","t">>>>,
      <<<<"c","l","i","m","b","i","n","g">>, <<"S","p","o","r","t">>>>,
      <<<<"n","a","t","u","r","e">>, <<"N","a","t","u","r","a","l"," ","P","l","a","c","e">>>>,
      <<<<"n","a","t","u","r","a","l">>, <<"N","a","t","u","r","a","l"," ","P","l","a","c","e">>>>,
      <<<<"n","a","t","i","o","n","a","l"," ","p","a","r","k">>, <<"N","a","t","u","r","a","l"," ","P","l","a","c","e">>>>,
      <<<<"p","a","r","k">>, <<"N","a","t","u","r","a","l"," ","P","l","a","c","e">>>>,
      <<<<"p","a","r","k","s">>, <<"N","a","t","u","r","a","l"," ","P","l","a","c","e">>>>,
      <<<<"b","e","a","c","h">>, <<"N","a","t","u","r","a","l"," ","P","l","a","c","e">>>>,
      <<<<"b","e","a","c","h","e","s">>, <<"N","a","t","u","r","a","l"," ","P","l","a","c","e">>>>,
      <<<<"s","e","a">>, <<"N","a","t","u","r","a","l"," ","P","l","a","c","e">>>>,
      <<<<"o","c","e","a","n">>, <<"N","a","t","u","r","a","l"," ","P","l","a","c","e">>>>,
      <<<<"l","a","k","e">>, <<"N","a","t","u","r","a","l"," ","P","l","a","c","e">>>>,
      <<<<"l","a","k","e","s">>, <<"N","a","t","u","r","a","l"," ","P","l","a","c","e">>>>,
      <<<<"r","i","v","e","r">>, <<"N","a","t","u","r","a","l"," ","P","l","a","c","e">>>>,
      <<<<"r","i","v","e","r","s">>, <<"N","a","t","u","r","a","l"," ","P","l","a","c","e">>>>,
      <<<<"f","i","s","h","i","n","g">>, <<"N","a","t","u","r","a","l"," ","P","l","a","c","e">>>>,
      <<<<"d","i","v","i","n","g">>, <<"N","a","t","u","r","a","l"," ","P","l","a","c","e">>>>,
      <<<<"s","c","u","b","a">>, <<"N","a","t","u","r","a","l"," ","P","l","a","c","e">>>>,
      <<<<"s","n","o","r","k","e","l","i","n","g">>, <<"N","a","t","u","r","a","l"," ","P","l","a","c","e">>>>,
      <<<<"t","r","e","k","k","i","n","g">>, <<"N","a","t","u","r","a","l"," ","P","l","a","c","e">>>>,
      <<<<"h","i","k","i","n","g">>, <<"N","a","t","u","r","a","l"," ","P","l","a","c","e">>>>,
      <<<<"h","i","k","e">>, <<"N","a","t","u","r","a","l"," ","P","l","a","c","e">>>>,
      <<<<"t","r","a","i","l">>, <<"N","a","t","u","r","a","l"," ","P","l","a","c","e">>>>,
      <<<<"t","r","a","i","l","s">>, <<"N","a","t","u","r","a","l"," ","P","l","a","c","e">>>>,
      <<<<"m","o","u","n","t","a","i","n">>, <<"N","a","t","u","r","a","l"," ","P","l","a","c","e">>>>,
      <<<<"m","o","u","n","t","a","i","n","s">>, <<"N","a","t","u","r","a","l"," ","P","l","a","c","e">>>>,
      <<<<"f","o","r","e","s","t">>, <<"N","a","t","u","r","a","l"," ","P","l","a","c","e">>>>,
      <<<<"j","u","n","g","l","e">>, <<"N","a","t","u","r","a","l"," ","P","l","a","c","e">>>>,
      <<<<"w","a","t","e","r","f","a","l","l">>, <<"N","a","t","u","r","a","l"," ","P","l","a","c","e">>>>,
      <<<<"w","a","t","e","r","f","a","l","l","s">>, <<"N","a","t","u","r","a","l"," ","P","l","a","c","e">>>>,
      <<<<"g","a","r","d","e","n">>, <<"N","a","t","u","r","a","l"," ","P","l","a","c","e">>>>,
      <<<<"g","a","r","d","e","n","s">>, <<"N","a","t","u","r","a","l"," ","P","l","a","c","e">>>>,
      <<<<"b","o","t","a","n","i","c","a","l">>, <<"N","a","t","u","r","a","l"," ","P","l","a","c","e">>>>,
      <<<<"w","i","l","d","l","i","f","e">>, <<"N","a","t","u","r","a","l"," ","P","l","a","c","e">>>>,
      <<<<"s","a","f","a","r","i">>, <<"N","a","t","u","r","a","l"," ","P","l","a","c","e">>>>,
      <<<<"b","i","r","d"," ","w","a","t","c","h","i","n","g">>, <<"N","a","t","u","r","a","l"," ","P","l","a","c","e">>>>,
      <<<<"c","a","m","p","i","n","g">>, <<"N","a","t","u","r","a","l"," ","P","l","a","c","e">>>>,
      <<<<"o","u","t","d","o","o","r","s">>, <<"N","a","t","u","r","a","l"," ","P","l","a","c","e">>>>,
      <<<<"o","u","t","d","o","o","r">>, <<"N","a","t","u","r","a","l"," ","P","l","a","c","e">>>>,
      <<<<"s","c","e","n","i","c">>, <<"N","a","t","u","r","a","l"," ","P","l","a","c","e">>>>,
      <<<<"i","s","l","a","n","d">>, <<"N","a","t","u","r","a","l"," ","P","l","a","c","e">>>>,
      <<<<"i","s","l","a","n","d","s">>, <<"N","a","t","u","r","a","l"," ","P","l","a","c","e">>>>,
      <<<<"c","a","v","e">>, <<"N","a","t","u","r","a","l"," ","P","l","a","c","e">>>>,
      <<<<"c","a","v","e","s">>, <<"N","a","t","u","r","a","l"," ","P","l","a","c","e">>>>,
      <<<<"c","a","n","y","o","n">>, <<"N","a","t","u","r","a","l"," ","P","l","a","c","e">>>>,
      <<<<"v","a","l","l","e","y">>, <<"N","a","t","u","r","a","l"," ","P","l","a","c","e">>>>,
      <<<<"w","a","t","e","r","f","r","o","n","t">>, <<"N","a","t","u","r","a","l"," ","P","l","a","c","e">>>>,
      <<<<"c","o","u","n","t","r","y","s","i","d","e">>, <<"N","a","t","u","r","a","l"," ","P","l","a","c","e">>>>>>

\* the keywords by their first character
KEYWORDS_BY_FIRST ==
    [c \in {INTEREST_KEYWORDS[k][1][1] : k \in DOMAIN INTEREST_KEYWORDS} |->
        {k \in DOMAIN INTEREST_KEYWORDS : INTEREST_KEYWORDS[k][1][1] = c}]

\* the categories of the keywords that occur in the text (keyword in text)
CategoriesIn(text) ==
    {INTEREST_KEYWORDS[k][2] :
        k \in UNION {IF text[i] \in DOMAIN KEYWORDS_BY_FIRST
                     THEN {j \in KEYWORDS_BY_FIRST[text[i]] :
                              StrAt(INTEREST_KEYWORDS[j][1], text, i, FALSE)}
                     ELSE {} : i \in DOMAIN text}}

\* sorted() of a set of category names
SortedCategories(categories) == SelectSeq(VALID_CATEGORIES, LAMBDA c : c \in categories)

\* TripPreferences(**kwargs): the generated __init__ takes the fields of the
\* dataclass and raises TypeError for any other keyword; __post_init__, lines
\* 173-231, then normalises the pace and the interests
TripPreferences(kwargs) ==
    IF ~(DOMAIN kwargs \subseteq
             {"city", "country", "start_date", "end_date", "duration_days", "interests",
              "pace", "location_preference", "needs_flight", "needs_airbnb",
              "source_location"})
    THEN Raises
    ELSE LET Given(f) == IF f \in DOMAIN kwargs THEN kwargs[f] ELSE None
             Normal(text) == Lower(Strip(text))
             \* _normalize_pace, lines 186-190
             given_pace == Given("pace")
             pace == IF given_pace = None \/ given_pace = Some(<<>>) THEN given_pace
                     ELSE IF Normal(given_pace.some) \in DOMAIN PACE_SYNONYMS
                     THEN Some(PACE_SYNONYMS[Normal(given_pace.some)])
                     ELSE given_pace
             \* lines 175-176; a list is given, or nothing
             interests == IF "interests" \in DOMAIN kwargs THEN kwargs.interests ELSE <<>>
             \* _filter_pace_from_interests, lines 192-205
             IsPaceWord(x) == Normal(x) \in DOMAIN PACE_SYNONYMS
             pace_words == SelectSeq(interests, IsPaceWord)
             cleaned == SelectSeq(interests, LAMBDA x : ~IsPaceWord(x))
             filtered_pace == IF (pace = None \/ pace = Some(<<>>)) /\ pace_words # <<>>
                              THEN Some(PACE_SYNONYMS[Normal(pace_words[1])])
                              ELSE pace
             \* _categorize_interests, lines 207-231
             Substring(k, x) == \/ Contains(x, INTEREST_KEYWORDS[k][1])
                                \/ Contains(INTEREST_KEYWORDS[k][1], x)
             CategoryOf(x) ==
                 IF x \in Range(VALID_CATEGORIES) THEN {x}
                 ELSE IF \E k \in DOMAIN INTEREST_KEYWORDS : INTEREST_KEYWORDS[k][1] = Normal(x)
                 THEN {INTEREST_KEYWORDS[Max({k \in DOMAIN INTEREST_KEYWORDS :
                                                  INTEREST_KEYWORDS[k][1] = Normal(x)})][2]}
                 ELSE IF \E k \in DOMAIN INTEREST_KEYWORDS : Substring(k, Normal(x))
                 THEN {INTEREST_KEYWORDS[Min({k \in DOMAIN INTEREST_KEYWORDS :
                                                  Substring(k, Normal(x))})][2]}
                 ELSE {}
             categories == UNION {CategoryOf(cleaned[i]) : i \in DOMAIN cleaned}
         IN  Returns([city |-> Given("city"),
                      country |-> Given("country"),
                      start_date |-> Given("start_date"),
                      end_date |-> Given("end_date"),
                      duration_days |-> Given("duration_days"),
                      interests |-> IF cleaned = <<>> THEN <<>>
                                    ELSE SortedCategories(categories),
                      pace |-> filtered_pace,
                      location_preference |-> Given("location_preference"),
                      needs_flight |-> Given("needs_flight"),
                      needs_airbnb |-> Given("needs_airbnb"),
                      source_location |-> Given("source_location")])

(***************************************************************************)
(* itinerary_orchestrator.py: the patterns of the extractor, lines 36-78   *)
(***************************************************************************)
\* _MONTH_NAMES, lines 36-42
_MONTH_NAMES ==
    (<<"j","a","n","u","a","r","y">> :> 1)
        @@ (<<"j","a","n">> :> 1)
        @@ (<<"f","e","b","r","u","a","r","y">> :> 2)
        @@ (<<"f","e","b">> :> 2)
        @@ (<<"m","a","r","c","h">> :> 3)
        @@ (<<"m","a","r">> :> 3)
        @@ (<<"a","p","r","i","l">> :> 4)
        @@ (<<"a","p","r">> :> 4)
        @@ (<<"m","a","y">> :> 5)
        @@ (<<"j","u","n","e">> :> 6)
        @@ (<<"j","u","n">> :> 6)
        @@ (<<"j","u","l","y">> :> 7)
        @@ (<<"j","u","l">> :> 7)
        @@ (<<"a","u","g","u","s","t">> :> 8)
        @@ (<<"a","u","g">> :> 8)
        @@ (<<"s","e","p","t","e","m","b","e","r">> :> 9)
        @@ (<<"s","e","p">> :> 9)
        @@ (<<"s","e","p","t">> :> 9)
        @@ (<<"o","c","t","o","b","e","r">> :> 10)
        @@ (<<"o","c","t">> :> 10)
        @@ (<<"n","o","v","e","m","b","e","r">> :> 11)
        @@ (<<"n","o","v">> :> 11)
        @@ (<<"d","e","c","e","m","b","e","r">> :> 12)
        @@ (<<"d","e","c">> :> 12)

\* (?:\s*,?\s*(\d{4}))?
OPTIONAL_YEAR == Opt(Cat(<<Ws, Opt(Lit(",")), Ws, Rep(Digit, 4, 4)>>))

\* _DATE_RANGE_MONTH, lines 45-49 (re.IGNORECASE): month [A-Za-z]+, \s+, d1, the
\* dashes, d2, the year
_DATE_RANGE_MONTH ==
    <<Plus(Cls(Range(LOWERCASE) \cup Range(UPPERCASE))), Plus(Blank), DAY_NUMBER,
      Cat(<<Ws, Plus(Cls({"-", EN_DASH, "t", "o"})), Ws>>), DAY_NUMBER, OPTIONAL_YEAR>>

\* _DATE_RANGE_ISO, lines 52-56: the first date, the range word \s*(?:to|-|–)\s*,
\* the second date
_DATE_RANGE_ISO ==
    <<Cat(<<Rep(Digit, 4, 4), Lit("-"), Rep(Digit, 2, 2), Lit("-"), Rep(Digit, 2, 2)>>),
      Cat(<<Ws, Alt(<<Str(<<"t","o">>), Lit("-"), Lit(EN_DASH)>>), Ws>>),
      Cat(<<Rep(Digit, 4, 4), Lit("-"), Rep(Digit, 2, 2), Lit("-"), Rep(Digit, 2, 2)>>)>>

\* _DATE_RANGE_TWO_MONTHS, lines 59-64 (re.IGNORECASE): month1, \s+, d1, y1, the
\* range word, month2, \s+, d2, y2
_DATE_RANGE_TWO_MONTHS ==
    <<Plus(Cls(Range(LOWERCASE) \cup Range(UPPERCASE))), Plus(Blank), DAY_NUMBER,
      OPTIONAL_YEAR,
      Cat(<<Ws, Alt(<<Str(<<"t","o">>), Lit("-"), Lit(EN_DASH)>>), Ws>>),
      Plus(Cls(Range(LOWERCASE) \cup Range(UPPERCASE))), Plus(Blank), DAY_NUMBER,
      OPTIONAL_YEAR>>

\* _BUDGET_PATTERN, lines 67-71 (re.IGNORECASE): its two alternatives, and the
\* part of each that is the amount [\d,]+(?:\.\d{1,2})?
_BUDGET_PATTERN ==
    <<[parts |-> <<Lit("$"), Ws,
                   Cat(<<Plus(Cls(DIGITS \cup {","})),
                         Opt(Cat(<<Lit("."), Rep(Digit, 1, 2)>>))>>)>>,
       group |-> 3],
      [parts |-> <<Cat(<<Plus(Cls(DIGITS \cup {","})),
                         Opt(Cat(<<Lit("."), Rep(Digit, 1, 2)>>))>>),
                   Ws,
                   Alt(<<Str(<<"C","A","D">>), Str(<<"c","a","d">>),
                         Cat(<<Str(<<"d","o","l","l","a","r">>), Opt(Lit("s"))>>), Str(<<"b","u","c","k","s">>)>>)>>,
       group |-> 1]>>

\* _PACE_PATTERN, lines 73-78 (re.IGNORECASE): \b, the pace word, \b
_PACE_PATTERN ==
    <<WordBoundary,
      Alt(<<Str(<<"r","e","l","a","x","e","d">>), Str(<<"r","e","l","a","x">>), Str(<<"c","h","i","l","l">>), Str(<<"e","a","s","y">>),
            Cat(<<Str(<<"l","a","i","d">>), Opt(AnyChar), Str(<<"b","a","c","k">>)>>),
            Str(<<"m","o","d","e","r","a","t","e">>), Str(<<"m","e","d","i","u","m">>), Str(<<"b","a","l","a","n","c","e","d">>), Str(<<"n","o","r","m","a","l">>),
            Str(<<"p","a","c","k","e","d">>), Str(<<"f","a","s","t">>), Str(<<"r","u","s","h">>), Str(<<"b","u","s","y">>),
            Str(<<"i","n","t","e","n","s","e">>), Str(<<"a","c","t","i","v","e">>),
            Cat(<<Str(<<"j","a","m">>), Opt(AnyChar), Str(<<"p","a","c","k","e","d">>)>>), Str(<<"h","e","c","t","i","c">>)>>),
      WordBoundary>>

(***************************************************************************)
(* _extract_preferences_from_history, itinerary_orchestrator.py lines      *)
(* 285-413                                                                 *)
(***************************************************************************)
\* [A-Z][a-z]+(?:\s+[A-Z][a-z]+)?
CITY_NAME ==
    Cat(<<UpperClass, Plus(LowerClass), Opt(Cat(<<Plus(Blank), UpperClass, Plus(LowerClass)>>))>>)

\* city_patterns, lines 334-339, and the part of each that is the city
CITY_PATTERNS ==
    <<[parts |-> <<Alt(<<Str(<<"v","i","s","i","t">>), Str(<<"v","i","s","i","t","i","n","g">>), Str(<<"t","r","i","p"," ","t","o">>),
                         Str(<<"t","r","a","v","e","l","i","n","g"," ","t","o">>), Str(<<"t","r","a","v","e","l"," ","t","o">>), Str(<<"g","o","i","n","g"," ","t","o">>),
                         Str(<<"g","o"," ","t","o">>), Str(<<"h","e","a","d"," ","t","o">>), Str(<<"h","e","a","d","e","d"," ","t","o">>)>>),
                   Plus(Blank), CITY_NAME>>,
       group |-> 3],
      [parts |-> <<CITY_NAME, Plus(Blank), Alt(<<Str(<<"t","r","i","p">>), Str(<<"i","t","i","n","e","r","a","r","y">>)>>)>>,
       group |-> 1],
      [parts |-> <<Str(<<"i","n">>), Plus(Blank), CITY_NAME>>, group |-> 3],
      [parts |-> <<Str(<<"t","o">>), Plus(Blank), CITY_NAME,
                   Alt(<<Blank, Lit(","), Lit("."), Lit("!"), Lit("?"), Eol>>)>>,
       group |-> 3]>>

\* lines 293-402: the keyword arguments of the call of lines 404-413. `year` is
\* datetime.now().year when the call is made.
ExtractedArguments(msgs, year) ==
    LET Of(combined) ==
            LET \* the year of an OPTIONAL_YEAR part, "" when the part matched nothing
                YearOf(m, k) == IF m[k + 1] = m[k] THEN <<>>
                                ELSE Slice(combined, m[k + 1] - 4, m[k + 1] - 1)
                Or(a, b) == IF a # <<>> THEN a ELSE b
                Month(name) == IF name \in DOMAIN _MONTH_NAMES THEN _MONTH_NAMES[name] ELSE 0
                Date(y, month, day) ==
                    Some(y \o <<"-">> \o FormatInt(month, 2) \o <<"-">>
                           \o FormatInt(ParseInt(day), 2))
                \* lines 304-328
                TwoMonths(m, mo1, mo2, y) ==
                    IF mo1 # 0 /\ mo2 # 0
                    THEN <<Date(y, mo1, Group(combined, m, 3)), Date(y, mo2, Group(combined, m, 8))>>
                    ELSE <<None, None>>
                OneMonth(m, month_num, y) ==
                    IF month_num # 0
                    THEN <<Date(y, month_num, Group(combined, m, 3)),
                           Date(y, month_num, Group(combined, m, 5))>>
                    ELSE <<None, None>>
                Dates(iso, two, one) ==
                    IF iso # None
                    THEN <<Some(Group(combined, iso.some, 1)), Some(Group(combined, iso.some, 3))>>
                    ELSE IF two # None
                    THEN TwoMonths(two.some, Month(Lower(Group(combined, two.some, 1))),
                                   Month(Lower(Group(combined, two.some, 6))),
                                   Or(YearOf(two.some, 9),
                                      Or(YearOf(two.some, 4), FormatInt(year, 1))))
                    ELSE IF one # None
                    THEN OneMonth(one.some, Month(Lower(Group(combined, one.some, 1))),
                                  Or(YearOf(one.some, 6), FormatInt(year, 1)))
                    ELSE <<None, None>>
                \* lines 341-350: the first pattern whose match is not one of the words
                \* of lines 345-348
                not_a_city ==
                    {<<"m","a","r","c","h">>, <<"a","p","r","i","l">>, <<"m","a","y">>, <<"j","u","n","e">>, <<"j","u","l","y">>,
                     <<"a","u","g","u","s","t">>, <<"s","e","p","t","e","m","b","e","r">>, <<"o","c","t","o","b","e","r">>,
                     <<"n","o","v","e","m","b","e","r">>, <<"d","e","c","e","m","b","e","r">>, <<"r","e","l","a","x","e","d">>,
                     <<"m","o","d","e","r","a","t","e">>, <<"p","a","c","k","e","d">>, <<"w","e","e","k","e","n","d">>,
                     <<"c","a","n","a","d","a">>, <<"f","r","a","n","c","e">>, <<"i","t","a","l","y">>, <<"s","p","a","i","n">>, <<"u","k">>,
                     <<"u","s","a">>}
                Candidate(m, group) ==
                    IF m = None THEN None ELSE Some(Strip(Group(combined, m.some, group)))
                Taken(candidates) ==
                    {k \in DOMAIN candidates : /\ candidates[k] # None
                                               /\ Lower(candidates[k].some) \notin not_a_city}
                FoundCity(candidates, taken) ==
                    IF taken = {} THEN None ELSE candidates[Min(taken)]
                \* lines 353-357
                CountryMatch(found_city) ==
                    IF found_city = None THEN None
                    ELSE ReGroups(<<Str(found_city.some),
                                    Alt(<<Cat(<<Lit(","), Ws>>),
                                          Cat(<<Blank, Str(<<"i","n">>), Plus(Blank)>>)>>),
                                    CITY_NAME>>, combined, 1, FALSE)
                FoundCountry(country_match) ==
                    IF country_match = None THEN None
                    ELSE Some(Strip(Group(combined, country_match.some, 3)))
                \* lines 365-372: the last amount of the text, in cents
                BudgetMatch(a, b) ==
                    IF a = None /\ b = None THEN None
                    ELSE IF b = None \/ (a # None /\ a.some[1] < b.some[1])
                    THEN Some([m |-> a.some, group |-> _BUDGET_PATTERN[1].group])
                    ELSE Some([m |-> b.some, group |-> _BUDGET_PATTERN[2].group])
                Cents(raw, dot) ==
                    100 * ParseInt(IF dot = {} THEN raw ELSE SubSeq(raw, 1, Min(dot) - 1))
                        + (IF dot = {} THEN 0
                           ELSE IF Len(raw) - Min(dot) = 1
                           THEN 10 * ParseInt(SubSeq(raw, Min(dot) + 1, Len(raw)))
                           ELSE ParseInt(SubSeq(raw, Min(dot) + 1, Len(raw))))
                Amount(raw, budget) ==
                    IF raw # <<>> THEN Some(Cents(raw, {i \in DOMAIN raw : raw[i] = "."}))
                    ELSE budget
                RECURSIVE Budget(_, _)
                After(bm, budget) ==
                    IF bm = None THEN budget
                    ELSE Budget(bm.some.m[Len(bm.some.m)],
                                Amount(SelectSeq(Group(combined, bm.some.m, bm.some.group),
                                                 LAMBDA c : c # ","), budget))
                Budget(from, budget) ==
                    After(BudgetMatch(ReGroups(_BUDGET_PATTERN[1].parts, combined, from, TRUE),
                                      ReGroups(_BUDGET_PATTERN[2].parts, combined, from, TRUE)),
                          budget)
                \* lines 384-387
                Synonym(pace_raw) ==
                    IF pace_raw \in DOMAIN PACE_SYNONYMS THEN Some(PACE_SYNONYMS[pace_raw])
                    ELSE Some(pace_raw)
                Pace(pm) ==
                    IF pm = None THEN None
                    ELSE Synonym(SelectSeq(Lower(Group(combined, pm.some, 2)),
                                           LAMBDA c : c \notin {"-", " "}))
                \* lines 390-398
                Days(sd, ed) == IF sd = None \/ ed = None THEN None
                                ELSE Some(ed.some - sd.some + 1)
                Duration(dates) ==
                    IF dates[1] = None \/ dates[2] = None THEN None
                    ELSE Days(strptime(dates[1].some), strptime(dates[2].some))
                \* lines 360-363 and 404-413
                Arguments(dates, found_city, pace) ==
                    [city |-> IF found_city = None THEN Some(<<"T","o","r","o","n","t","o">>) ELSE found_city,
                     country |-> IF found_city = None THEN Some(<<"C","a","n","a","d","a">>)
                                 ELSE FoundCountry(CountryMatch(found_city)),
                     start_date |-> dates[1],
                     end_date |-> dates[2],
                     duration_days |-> Duration(dates),
                     budget |-> Budget(1, None),
                     budget_currency |-> Some(<<"C","A","D">>),
                     \* lines 375-381
                     interests |-> SortedCategories(CategoriesIn(Lower(combined))),
                     pace |-> IF pace = None \/ pace = Some(<<>>) THEN Some(<<"m","o","d","e","r","a","t","e">>)
                              ELSE pace,
                     location_preference |->
                         Some(<<"d","o","w","n","t","o","w","n"," ">> \o (IF found_city = None THEN <<"T","o","r","o","n","t","o">>
                                                ELSE found_city.some)),
                     booking_type |-> Some(<<"n","o","n","e">>),
                     source_location |-> None]
                City(candidates) == FoundCity(candidates, Taken(candidates))
            IN  Arguments(Dates(ReGroups(_DATE_RANGE_ISO, combined, 1, FALSE),
                                ReGroups(_DATE_RANGE_TWO_MONTHS, combined, 1, TRUE),
                                ReGroups(_DATE_RANGE_MONTH, combined, 1, TRUE)),
                          City([k \in DOMAIN CITY_PATTERNS |->
                                   Candidate(ReGroups(CITY_PATTERNS[k].parts, combined, 1, FALSE),
                                             CITY_PATTERNS[k].group)]),
                          Pace(ReGroups(_PACE_PATTERN, combined, 1, TRUE)))
    IN  Of(JoinUserTexts(msgs, 1))

\* lines 285-413: the TripPreferences built from these arguments
_extract_preferences_from_history(msgs, year) == TripPreferences(ExtractedArguments(msgs, year))

(***************************************************************************)
(* _generate_grounded_itinerary with an orchestrator, conversation_service *)
(* lines 451-490, and generate_enriched_itinerary, itinerary_orchestrator  *)
(* lines 198-201                                                           *)
(***************************************************************************)
\* generate_enriched_itinerary up to its first await: it extracts the preferences
\* (line 201), and what the extraction raises leaves the coroutine
generate_enriched_itinerary(msgs, year) == _extract_preferences_from_history(msgs, year)

\* what the orchestrator raises leaves the turn
_generate_grounded_itinerary_no_fallback(msgs) ==
    /\ UNCHANGED <<use_gemini, gemini_client>>
    /\ booking_type' = "none"
    /\ IF orchestrator = None
       THEN StartLegacy(msgs, <<>>)
       ELSE Raise(msgs, <<>>) /\ legacy_venues' = Idle

\* Lines 453-457 build the Gemini client when Groq is not there, line 460 reads the
\* booking request, lines 462-471 call the orchestrator. The call raises at its
\* line 201 before any lookup is started, and the except block of lines 484-490
\* leads to the path of lines 492-582.
_generate_grounded_itinerary(msgs) ==
    /\ UNCHANGED use_gemini
    /\ IF orchestrator = None
       THEN /\ StartLegacy(msgs, <<>>)
            /\ booking_type' = "none"
            /\ UNCHANGED gemini_client
       ELSE IF ~gemini_client /\ ~use_groq /\ ~gemini_key
       THEN /\ StartLegacy(msgs, <<>>)
            /\ booking_type' = "none"
            /\ UNCHANGED gemini_client
       ELSE /\ gemini_client' = (gemini_client \/ ~use_groq)
            /\ booking_type' = _extract_booking_info(msgs)
            /\ \E year \in YEARS : generate_enriched_itinerary(msgs, year).kind = "raises"
            /\ StartLegacy(msgs, <<>>)

(***************************************************************************)
(* turn, conversation_service.py lines 314-344                             *)
(***************************************************************************)

\* the caller passes the transcript of the last result it got, and the input
Turn(input) ==
    LET
        NoLocals ==
            /\ booking_type' = "none"
            /\ legacy_venues' = Idle
            /\ UNCHANGED flagVars
    IN  /\ pc = "idle"
        /\ turns < MaxTurns
        /\ turns' = turns + 1
        /\ user_input' = input
        /\ UNCHANGED constVars
        /\ LET held == IF result.status = "returned" THEN messages ELSE transcript
           IN  /\ transcript' = held
               /\ IF IsGreetingTurn(held, input)
                  THEN /\ route' = "greeting"
                       /\ Return(GreetingMessages, <<>>, GREETING_TEXT, "greeting",
                                 Some(REQUIRED_FIELDS), None)
                       /\ NoLocals
                  ELSE LET msgs == IF Truthy(input)
                                   THEN Append(held, Message("user", input.some))
                                   ELSE held
                       IN  IF _user_is_confirming(msgs, input)
                           THEN /\ route' = "itinerary"
                                /\ _generate_grounded_itinerary(msgs)
                           ELSE /\ route' = "intake"
                                /\ _intake_turn(msgs)
                                /\ NoLocals

(***************************************************************************)
(* Specification                                                           *)
(***************************************************************************)
\* ItineraryOrchestrator.__init__, itinerary_orchestrator.py lines 137-170: every
\* service could be built, or none could (maps without its API key)
Orchestrators ==
    {[weather_service |-> TRUE, venue_service |-> TRUE, booking_service |-> TRUE,
      maps |-> "available"],
     [weather_service |-> FALSE, venue_service |-> FALSE, booking_service |-> FALSE,
      maps |-> "unavailable"]}

\* VenueService() fails for the conversation service as it does for the orchestrator
InitService ==
    /\ \E c \in ({[use_groq |-> TRUE, use_gemini |-> FALSE, gemini_client |-> FALSE, gemini_key |-> k] : k \in BOOLEAN} \cup {[use_groq |-> FALSE, use_gemini |-> TRUE, gemini_client |-> TRUE, gemini_key |-> TRUE]}) :
        /\ use_groq = c.use_groq
        /\ groq_client = c.use_groq
        /\ use_gemini = c.use_gemini
        /\ gemini_client = c.gemini_client
        /\ gemini_key = c.gemini_key
    /\ orchestrator \in {None} \cup Orchestrators
    /\ venue_service = (orchestrator = None \/ orchestrator.venue_service)

InitTurn ==
    /\ pc = "idle"
    /\ user_input = None
    /\ messages = <<>>
    /\ route = "none"
    /\ llm_calls = <<>>
    /\ booking_type = "none"
    /\ legacy_venues = Idle
    /\ result = [status |-> "none"]

\* a conversation that has reached the confirmation question in three turns
CONFIRMED_TRANSCRIPT ==
    GreetingMessages
        \o <<Message("user", U_VISIT), Message("assistant", CleanResponse(REPLY_ASK)),
              Message("user", U_BOOKING), Message("assistant", CleanResponse(REPLY_CONFIRM))>>

\* the caller starts a conversation, or goes on with one
Init ==
    /\ InitService
    /\ \/ transcript = <<>> /\ phases = <<>>
       \/ transcript = CONFIRMED_TRANSCRIPT /\ phases = <<"greeting", "intake", "confirmed">>
    /\ turns = 0
    /\ InitTurn
    /\ history = <<>>
    /\ arguments = None
    /\ preferences = NotCalled
    /\ earlier = None
    /\ dated = NotCalled
    /\ called = NotCalled

Next ==
    \/ \E input \in ({None, Some(U_YES), Some(U_VISIT), Some(U_BOOKING)}) : Turn(input)
    \/ \E outcome \in IntakeOutcomes : IntakeGroqDone(outcome)
    \/ \E outcome \in IntakeOutcomes : IntakeGeminiDone(outcome)
    \/ \E outcome \in VenueOutcomes : LegacyVenuesDone(outcome)
    \/ \E outcome \in LLMOutcomes : LegacyGroqDone(outcome)
    \/ \E outcome \in LLMOutcomes : LegacyGeminiDone(outcome)

Spec == Init /\ [][Next]_vars

InitBare ==
    /\ InitService
    /\ transcript = (Tail(CONFIRMED_TRANSCRIPT))
    /\ phases = <<>>
    /\ turns = 0
    /\ InitTurn
    /\ history = <<>>
    /\ arguments = None
    /\ preferences = NotCalled
    /\ earlier = None
    /\ dated = NotCalled
    /\ called = NotCalled

SpecBare == InitBare /\ [][Next]_vars

(***************************************************************************)
(* A caller of _extract_preferences_from_history: it extracts, the user    *)
(* writes a message, it extracts again                                     *)
(***************************************************************************)
\* what the user writes
U_HELLO == <<"h","e","l","l","o">>
U_JAM_PACKED == <<"a"," ","j","a","m","-","p","a","c","k","e","d"," ","t","r","i","p"," ","t","o"," ","P","a","r","i","s",","," ","F","r","a","n","c","e">>

USER_TEXTS ==
    {U_HELLO,
     \* museums
     <<"m","u","s","e","u","m","s">>,
     \* and food
     <<"a","n","d"," ","f","o","o","d">>,
     \* a great start
     <<"a"," ","g","r","e","a","t"," ","s","t","a","r","t">>,
     \* March 15-17, 2026, budget $300
     <<"M","a","r","c","h"," ","1","5","-","1","7",","," ","2","0","2","6",","," ","b","u","d","g","e","t"," ","$","3","0","0">>,
     \* 2026-06-01 to 2026-06-01
     <<"2","0","2","6","-","0","6","-","0","1"," ","t","o"," ","2","0","2","6","-","0","6","-","0","1">>,
     \* Dec 30 to Jan 2
     <<"D","e","c"," ","3","0"," ","t","o"," ","J","a","n"," ","2">>,
     U_JAM_PACKED,
     \* relaxed pace please
     <<"r","e","l","a","x","e","d"," ","p","a","c","e"," ","p","l","e","a","s","e">>,
     \* day 1 to day 3 on March 15-17
     <<"d","a","y"," ","1"," ","t","o"," ","d","a","y"," ","3"," ","o","n"," ","M","a","r","c","h"," ","1","5","-","1","7">>}

\* user messages of one transcript
MaxUserMessages == 2

UserMessages(msgs) == SelectSeq(msgs, LAMBDA m : m.role = "user")

\* the transcript a greeting turn returned
InitExtract ==
    /\ use_groq = TRUE
    /\ groq_client = TRUE
    /\ use_gemini = FALSE
    /\ gemini_client = FALSE
    /\ gemini_key = TRUE
    /\ orchestrator \in Orchestrators
    /\ venue_service = orchestrator.venue_service
    /\ transcript = <<>>
    /\ phases = <<>>
    /\ turns = 0
    /\ InitTurn
    /\ history = GreetingMessages
    /\ arguments = None
    /\ preferences = NotCalled
    /\ earlier = None
    /\ dated = NotCalled
    /\ called = NotCalled

\* the user writes after the transcript has been read
Say(text) ==
    /\ preferences # NotCalled
    /\ Len(UserMessages(history)) < MaxUserMessages
    /\ history' = Append(history, Message("user", text))
    /\ earlier' = Some([arguments |-> arguments.some, preferences |-> preferences])
    /\ arguments' = None
    /\ preferences' = NotCalled
    /\ UNCHANGED <<dated, called>>
    /\ UNCHANGED <<use_groq, use_gemini, groq_client, gemini_client, venue_service,
                   orchestrator, gemini_key, transcript, phases, turns, pc, user_input,
                   messages, route, llm_calls, booking_type, legacy_venues, result>>

\* _extract_preferences_from_history(history) is called in the year `year`
Extract(year) ==
    /\ preferences = NotCalled
    /\ arguments' = Some(ExtractedArguments(history, year))
    /\ preferences' = _extract_preferences_from_history(history, year)
    /\ UNCHANGED <<history, earlier, dated, called>>
    /\ UNCHANGED <<use_groq, use_gemini, groq_client, gemini_client, venue_service,
                   orchestrator, gemini_key, transcript, phases, turns, pc, user_input,
                   messages, route, llm_calls, booking_type, legacy_venues, result>>

NextExtract ==
    \/ \E text \in USER_TEXTS : Say(text)
    \/ \E year \in YEARS : Extract(year)

SpecExtract == InitExtract /\ [][NextExtract]_vars

(***************************************************************************)
(* The trip length from the dates: the extractor of the orchestrator,      *)
(* NLPExtractionService._calculate_date_fields and                         *)
(* ItineraryService._validate_preferences                                  *)
(***************************************************************************)
\* the dates a caller gives; the last one is not in the calendar
DATE_TEXTS == {<<"2","0","2","4","-","0","2","-","2","8">>, <<"2","0","2","4","-","0","3","-","0","1">>, <<"2","0","2","6","-","0","3","-","1","5">>, <<"2","0","2","6","-","0","3","-","1","7">>, <<"2","0","2","6","-","1","2","-","3","1">>,
               <<"2","0","2","7","-","0","1","-","0","1">>, <<"2","0","2","6","-","0","2","-","3","0">>}

\* the longest trip a caller states
MaxDuration == 3

\* a number that is not None or 0
NonZero(x) == x # None /\ x.some # 0

\* _calculate_date_fields, nlp_extraction_service.py lines 576-630, on the three
\* date fields of the preferences
_calculate_date_fields(p) ==
    LET
        \* date.fromordinal(n).strftime("%Y-%m-%d")
        strftime(n) ==
            LET Text(y, m, d) == FormatInt(y, 4) \o <<"-">> \o FormatInt(m, 2) \o <<"-">> \o FormatInt(d, 2)
                ymd == CHOOSE t \in ((n \div 366) + 1..(n \div 365) + 1) \X (1..12) \X (1..31) :
                           strptime(Text(t[1], t[2], t[3])) = Some(n)
            IN  Text(ymd[1], ymd[2], ymd[3])
    IN  IF Truthy(p.start_date) /\ Truthy(p.end_date) /\ ~NonZero(p.duration_days)
        THEN IF Len(p.start_date.some) = 10 /\ Len(p.end_date.some) = 10
             THEN IF strptime(p.start_date.some) = None \/ strptime(p.end_date.some) = None
                  THEN p
                  ELSE IF strptime(p.end_date.some).some - strptime(p.start_date.some).some + 1 > 0
                  THEN [p EXCEPT !.duration_days =
                            Some(strptime(p.end_date.some).some - strptime(p.start_date.some).some + 1)]
                  ELSE p
             ELSE p
        ELSE IF Truthy(p.start_date) /\ NonZero(p.duration_days) /\ ~Truthy(p.end_date)
        THEN IF Len(p.start_date.some) = 10 /\ strptime(p.start_date.some) # None
             THEN [p EXCEPT !.end_date =
                       Some(strftime(strptime(p.start_date.some).some + p.duration_days.some - 1))]
             ELSE p
        ELSE IF Truthy(p.end_date) /\ NonZero(p.duration_days) /\ ~Truthy(p.start_date)
        THEN IF Len(p.end_date.some) = 10 /\ strptime(p.end_date.some) # None
             THEN [p EXCEPT !.start_date =
                       Some(strftime(strptime(p.end_date.some).some - p.duration_days.some + 1))]
             ELSE p
        ELSE p

\* settings.MIN_DAILY_BUDGET and settings.VALID_PACES
MIN_DAILY_BUDGET == 50
VALID_PACES == {<<"r","e","l","a","x","e","d">>, <<"m","o","d","e","r","a","t","e">>, <<"p","a","c","k","e","d">>}

\* the request of a caller of generate_itinerary
Request(start, end, given, budget) ==
    [city |-> Some(<<"T","o","r","o","n","t","o">>), country |-> Some(<<"C","a","n","a","d","a">>), start_date |-> start,
     end_date |-> end, duration_days |-> given, budget |-> Some(budget),
     budget_currency |-> Some(<<"C","A","D">>), interests |-> Some(<<<<"F","o","o","d"," ","a","n","d"," ","B","e","v","e","r","a","g","e">>>>),
     pace |-> Some(<<"M","o","d","e","r","a","t","e">>), location_preference |-> Some(<<"d","o","w","n","t","o","w","n">>)]

\* _validate_preferences, itinerary_service.py lines 351-412; daily_budget is the
\* quotient of its two numbers
_validate_preferences(prefs) ==
    IF \/ \E f \in {"city", "country", "start_date", "end_date", "budget_currency",
                     "interests", "pace", "location_preference"} : ~Truthy(prefs[f])
       \/ ~NonZero(prefs.duration_days)
       \/ ~NonZero(prefs.budget)
    THEN Raises
    ELSE IF strptime(prefs.start_date.some) = None \/ strptime(prefs.end_date.some) = None
    THEN Raises
    ELSE IF strptime(prefs.end_date.some).some <= strptime(prefs.start_date.some).some
    THEN Raises
    ELSE LET calculated == strptime(prefs.end_date.some).some
                               - strptime(prefs.start_date.some).some + 1
         IN  IF prefs.budget.some < MIN_DAILY_BUDGET * calculated THEN Raises
             ELSE IF Lower(prefs.pace.some) \notin VALID_PACES THEN Raises
             ELSE Returns([city |-> prefs.city, country |-> prefs.country,
                           start_date |-> prefs.start_date, end_date |-> prefs.end_date,
                           duration_days |-> Some(calculated), budget |-> prefs.budget,
                           budget_currency |-> prefs.budget_currency,
                           interests |-> prefs.interests,
                           pace |-> Some(Lower(prefs.pace.some)),
                           location_preference |-> prefs.location_preference,
                           daily_budget |-> <<prefs.budget.some, calculated>>,
                           starting_location |-> prefs.location_preference,
                           hours_per_day |-> 8,
                           transportation_modes |-> <<"mixed">>])

\* the user writes the two dates and the orchestrator extracts the preferences
ExtractDates(start, end, year) ==
    LET msgs == Append(GreetingMessages, Message("user", start \o <<" ","t","o"," ">> \o end))
    IN  /\ dated = NotCalled
        /\ dated' = [function |-> "_extract_preferences_from_history",
                      start_date |-> Some(start), end_date |-> Some(end),
                      given |-> ExtractedArguments(msgs, year).duration_days, budget |-> None,
                      outcome |-> _extract_preferences_from_history(msgs, year)]
        /\ UNCHANGED <<use_groq, use_gemini, groq_client, gemini_client, venue_service,
                       orchestrator, gemini_key, transcript, phases, turns, pc, user_input,
                       messages, route, llm_calls, booking_type, legacy_venues, result,
                       history, arguments, preferences, earlier, called>>

CalculateDateFields(start, end, given) ==
    /\ dated = NotCalled
    /\ dated' = [function |-> "_calculate_date_fields", start_date |-> start,
                  end_date |-> end, given |-> given, budget |-> None,
                  outcome |-> Returns(_calculate_date_fields(
                                  [start_date |-> start, end_date |-> end,
                                   duration_days |-> given]))]
    /\ UNCHANGED <<use_groq, use_gemini, groq_client, gemini_client, venue_service,
                   orchestrator, gemini_key, transcript, phases, turns, pc, user_input,
                   messages, route, llm_calls, booking_type, legacy_venues, result,
                   history, arguments, preferences, earlier, called>>

ValidatePreferences(start, end, given, budget) ==
    /\ dated = NotCalled
    /\ dated' = [function |-> "_validate_preferences", start_date |-> start,
                  end_date |-> end, given |-> given, budget |-> Some(budget),
                  outcome |-> _validate_preferences(Request(start, end, given, budget))]
    /\ UNCHANGED <<use_groq, use_gemini, groq_client, gemini_client, venue_service,
                   orchestrator, gemini_key, transcript, phases, turns, pc, user_input,
                   messages, route, llm_calls, booking_type, legacy_venues, result,
                   history, arguments, preferences, earlier, called>>

\* the dates and the duration are given or not; the budget is 100 or 600 dollars
NextDates ==
    \/ \E start \in DATE_TEXTS, end \in DATE_TEXTS, year \in YEARS :
           ExtractDates(start, end, year)
    \/ \E start \in {None} \cup {Some(d) : d \in DATE_TEXTS},
          end \in {None} \cup {Some(d) : d \in DATE_TEXTS},
          given \in {None} \cup {Some(n) : n \in 0..MaxDuration} :
           CalculateDateFields(start, end, given)
    \/ \E start \in {None} \cup {Some(d) : d \in DATE_TEXTS},
          end \in {None} \cup {Some(d) : d \in DATE_TEXTS},
          given \in {None} \cup {Some(n) : n \in 0..MaxDuration},
          budget \in {100, 600} :
           ValidatePreferences(start, end, given, budget)

SpecDates == InitExtract /\ [][NextDates]_vars

(***************************************************************************)
(* ItineraryService: the pace parameters, the generation prompt and the    *)
(* checks of a generated plan                                              *)
(***************************************************************************)
\* `lo, hi = value`: TypeError when the value is an int ("cannot unpack
\* non-iterable int object"), ValueError when it has not two elements
Unpack(value) ==
    IF "tuple" \in DOMAIN value /\ Len(value.tuple) = 2 THEN Returns(value.tuple)
    ELSE Raises

\* settings.PACE_PARAMS, settings.py lines 84-106: the activities a day, a Python
\* int, and the minutes an activity, a Python tuple; `a, b = value` tells them apart
PACE_PARAMS ==
    (<<"r","e","l","a","x","e","d">> :> [activities_per_day |-> [int |-> 2], minutes_per_activity |-> [tuple |-> <<90, 120>>]])
    @@ (<<"m","o","d","e","r","a","t","e">> :> [activities_per_day |-> [int |-> 3], minutes_per_activity |-> [tuple |-> <<60, 90>>]])
    @@ (<<"p","a","c","k","e","d">> :> [activities_per_day |-> [int |-> 4], minutes_per_activity |-> [tuple |-> <<30, 60>>]])

\* _build_generation_prompt, lines 418-486: the pace block of the prompt
_build_generation_prompt(prefs) ==
    LET pp == PACE_PARAMS[prefs.pace.some]
        activities == Unpack(pp.activities_per_day)
        minutes == Unpack(pp.minutes_per_activity)
    IN  IF activities = Raises \/ minutes = Raises THEN Raises
        ELSE Returns([pace |-> prefs.pace.some, activities |-> activities.value,
                      minutes |-> minutes.value])

\* _validate_feasibility, lines 688-754, of an itinerary all of whose days are
\* within their budget: the count of days, then for each day its activities, its
\* meals and `lo, hi = pp["activities_per_day"]`
_validate_feasibility(itinerary, prefs) ==
    LET pp == PACE_PARAMS[prefs.pace.some]
        days == itinerary.days
        bounds == Unpack(pp.activities_per_day)
        Outside(n) == n < bounds.value[1] \/ n > bounds.value[2]
        issues == (IF Len(days) # prefs.duration_days.some THEN {"days"} ELSE {})
                  \cup {"no activities" : d \in {d \in DOMAIN days : days[d].activities = <<>>}}
        warnings == {"meals" : d \in {d \in DOMAIN days : days[d].meals < 2}}
                    \cup {"activities" : d \in {d \in DOMAIN days :
                                                   Outside(Len(days[d].activities))}}
    IN  IF days # <<>> /\ bounds = Raises THEN Raises
        ELSE Returns([feasible |-> issues = {}, issues |-> issues, warnings |-> warnings])

\* _validate_database_only, lines 756-817: every activity has from_database
_validate_database_only(itinerary) ==
    LET days == itinerary.days
        non_db_venues == UNION {{<<d, a>> : a \in {a \in DOMAIN days[d].activities :
                                                      ~days[d].activities[a]}} :
                                   d \in DOMAIN days}
    IN  [valid |-> non_db_venues = {}, non_database_venues |-> non_db_venues]

\* generate_itinerary, lines 210-345. `response` is what its LLM step (lines
\* 254-311) ends with: the itinerary in the JSON text of Groq or of Gemini, or no
\* text, or a raise. _build_itinerary_object (591-682) builds each activity with
\* Activity(..., source_url=..., from_database=...), and the dataclass Activity
\* (models/itinerary.py 31-57) has neither field: TypeError.
generate_itinerary(request, response) ==
    LET \* the exception that leaves the call
        RaisesOf(error) == [kind |-> "raises", error |-> error]
        validated == _validate_preferences(request)
        prompt == _build_generation_prompt(validated.value)
        itinerary == response.value.some
        db_validation == _validate_database_only(itinerary)
        check == _validate_feasibility(itinerary, validated.value)
    IN  IF validated = Raises THEN RaisesOf("ValueError")
        ELSE IF prompt = Raises THEN RaisesOf("TypeError")
        ELSE IF response = Raises THEN RaisesOf("ExternalAPIError")
        ELSE IF response = Returns(None) THEN RaisesOf("Exception")
        ELSE IF \E d \in DOMAIN itinerary.days : itinerary.days[d].activities # <<>>
        THEN RaisesOf("TypeError")
        ELSE IF ~db_validation.valid THEN RaisesOf("ItineraryGenerationError")
        ELSE IF check = Raises THEN RaisesOf("TypeError")
        ELSE IF ~check.value.feasible THEN RaisesOf("ItineraryGenerationError")
        ELSE Returns(itinerary)

\* the most activities of a generated day, and the most days of a generated plan
MaxActivities == 4
MaxDays == 2

Itineraries ==
    LET
        \* the days of a generated plan: for each activity whether it has from_database,
        \* and the number of meals
        PlanDays ==
            {[activities |-> a, meals |-> 2] :
                a \in {[i \in 1..n |-> TRUE] : n \in 0..MaxActivities} \cup {<<FALSE>>, <<TRUE, FALSE>>}}
            \cup {[activities |-> <<TRUE, TRUE>>, meals |-> 1]}
    IN  {[days |-> days] : days \in UNION {[1..n -> PlanDays] : n \in 0..MaxDays}}

BuildGenerationPrompt(pace) ==
    /\ called = NotCalled
    /\ called' = [function |-> "_build_generation_prompt",
                   preferences |-> [pace |-> Some(pace)], response |-> NotCalled,
                   outcome |-> _build_generation_prompt([pace |-> Some(pace)])]
    /\ UNCHANGED <<use_groq, use_gemini, groq_client, gemini_client, venue_service,
                   orchestrator, gemini_key, transcript, phases, turns, pc, user_input,
                   messages, route, llm_calls, booking_type, legacy_venues, result,
                   history, arguments, preferences, earlier, dated>>

ValidateFeasibility(pace, duration, itinerary) ==
    LET prefs == [pace |-> Some(pace), duration_days |-> Some(duration)]
    IN  /\ called = NotCalled
        /\ called' = [function |-> "_validate_feasibility", preferences |-> prefs,
                       response |-> Returns(Some(itinerary)),
                       outcome |-> _validate_feasibility(itinerary, prefs)]
        /\ UNCHANGED <<use_groq, use_gemini, groq_client, gemini_client, venue_service,
                       orchestrator, gemini_key, transcript, phases, turns, pc, user_input,
                       messages, route, llm_calls, booking_type, legacy_venues, result,
                       history, arguments, preferences, earlier, dated>>

GenerateItinerary(start, end, budget, response) ==
    LET request == Request(Some(start), Some(end), Some(1), budget)
    IN  /\ called = NotCalled
        /\ called' = [function |-> "generate_itinerary", preferences |-> request,
                       response |-> response,
                       outcome |-> generate_itinerary(request, response)]
        /\ UNCHANGED <<use_groq, use_gemini, groq_client, gemini_client, venue_service,
                       orchestrator, gemini_key, transcript, phases, turns, pc, user_input,
                       messages, route, llm_calls, booking_type, legacy_venues, result,
                       history, arguments, preferences, earlier, dated>>

NextPlan ==
    \/ \E pace \in VALID_PACES : BuildGenerationPrompt(pace)
    \/ \E pace \in VALID_PACES, duration \in 1..MaxDays, itinerary \in Itineraries :
           ValidateFeasibility(pace, duration, itinerary)
    \/ \E start \in DATE_TEXTS, end \in DATE_TEXTS, budget \in {100, 600},
          response \in {Raises, Returns(None)} \cup {Returns(Some(i)) : i \in Itineraries} :
           GenerateItinerary(start, end, budget, response)

SpecPlan == InitExtract /\ [][NextPlan]_vars

(***************************************************************************)
(* ItineraryOrchestrator: the venue names of an itinerary text, the routes *)
(* and the booking lookup, each called on its own                          *)
(***************************************************************************)
\* the lines an itinerary text is made of here, each with the venue its citation
\* names: a citation, a second venue, the first venue again with more blanks, a
\* heading, a dash with no citation, a citation after a hyphen
ITINERARY_LINES ==
    <<[text |-> <<"T","o","u","r"," ",EM_DASH," ","C","N"," ","T","o","w","e","r"," ","(","S","o","u","r","c","e",":"," ","c","n","_","t","o","w","e","r",","," ","h","t","t","p","s",":","/","/","w","w","w",".","c","n","t","o","w","e","r",".","c","a",")">>,
       venue |-> Some(<<"C","N"," ","T","o","w","e","r">>)],
      [text |-> <<"E","a","t"," ",EM_DASH," ","R","O","M"," ","(","S","o","u","r","c","e",":"," ","r","o","m",")">>, venue |-> Some(<<"R","O","M">>)],
      [text |-> <<"S","u","n","s","e","t"," ",EM_DASH," "," "," ","C","N"," ","T","o","w","e","r"," "," "," ","(","S","o","u","r","c","e",":"," ","c","n","_","t","o","w","e","r",")">>, venue |-> Some(<<"C","N"," ","T","o","w","e","r">>)],
      [text |-> <<"D","a","y"," ","1">>, venue |-> None],
      [text |-> <<"E","v","e","n","i","n","g"," ",EM_DASH," ","f","r","e","e"," ","t","i","m","e">>, venue |-> None],
      [text |-> <<"W","a","l","k"," ","-"," ","H","i","g","h"," ","P","a","r","k"," ","(","S","o","u","r","c","e",":"," ","h","i","g","h","_","p","a","r","k",")">>, venue |-> None]>>

\* the lines of a text at most
MaxLines == 3

\* the text made of the lines with the numbers of `choice`
ItineraryText(choice) == JoinLines([i \in DOMAIN choice |-> ITINERARY_LINES[choice[i]].text])

\* routes that asks the collaborator whatever the text holds
_fetch_routes_always_asks(maps_service, itinerary_text) ==
    LET venue_names == _extract_venue_names_from_itinerary(itinerary_text)
        routes == maps_service.get_itinerary_routes
    IN  IF ~maps_service.service \/ ~maps_service.available
        THEN [returned |-> None, asked |-> <<>>]
        ELSE [returned |-> IF routes.kind = "returns" /\ routes.value # <<>>
                           THEN Some(routes.value) ELSE None,
              asked |-> <<venue_names>>]

\* _fetch_routes, lines 546-574: what it returns, and the venue names it has
\* asked get_itinerary_routes about
_fetch_routes(maps_service, itinerary_text) ==
    LET venue_names == _extract_venue_names_from_itinerary(itinerary_text)
        routes == maps_service.get_itinerary_routes
    IN  IF ~maps_service.service \/ ~maps_service.available
        THEN [returned |-> None, asked |-> <<>>]
        ELSE IF Len(venue_names) < 2
        THEN [returned |-> None, asked |-> <<>>]
        ELSE [returned |-> IF routes.kind = "returns" /\ routes.value # <<>>
                           THEN Some(routes.value) ELSE None,
              asked |-> <<venue_names>>]

\* the booking lookup asks book_trip whenever there is a booking service
_fetch_booking_always_asks(booking_service, prefs, type, source_location, book_trip) ==
    IF ~booking_service THEN [outcome |-> Returns(None), asked |-> <<>>]
    ELSE [outcome |-> Returns(IF book_trip.kind = "returns" THEN Some(book_trip.value)
                              ELSE None),
          asked |-> <<type>>]

\* _fetch_booking, lines 460-486: what the coroutine does, and the booking types
\* it has asked book_trip about. TripPreferences takes no booking_type.
_fetch_booking(booking_service, prefs, type, source_location, book_trip) ==
    IF ~booking_service \/ type = "none"
    THEN [outcome |-> Returns(None), asked |-> <<>>]
    ELSE LET booking_prefs ==
                 TripPreferences([city |-> prefs.city, country |-> prefs.country,
                                  start_date |-> prefs.start_date,
                                  end_date |-> prefs.end_date, pace |-> prefs.pace,
                                  interests |-> prefs.interests,
                                  booking_type |-> Some(type),
                                  source_location |-> source_location])
         IN  IF booking_prefs = Raises THEN [outcome |-> Raises, asked |-> <<>>]
             ELSE [outcome |-> Returns(IF book_trip.kind = "returns"
                                       THEN Some(book_trip.value) ELSE None),
                   asked |-> <<type>>]

ExtractVenueNames(choice) ==
    /\ called = NotCalled
    /\ called' = [function |-> "_extract_venue_names_from_itinerary",
                   preferences |-> choice, response |-> NotCalled,
                   outcome |-> _extract_venue_names_from_itinerary(ItineraryText(choice))]
    /\ UNCHANGED <<use_groq, use_gemini, groq_client, gemini_client, venue_service,
                   orchestrator, gemini_key, transcript, phases, turns, pc, user_input,
                   messages, route, llm_calls, booking_type, legacy_venues, result,
                   history, arguments, preferences, earlier, dated>>

FetchRoutes(maps_service, choice) ==
    /\ called = NotCalled
    /\ called' = [function |-> "_fetch_routes", preferences |-> choice,
                   response |-> maps_service,
                   outcome |-> _fetch_routes(maps_service, ItineraryText(choice))]
    /\ UNCHANGED <<use_groq, use_gemini, groq_client, gemini_client, venue_service,
                   orchestrator, gemini_key, transcript, phases, turns, pc, user_input,
                   messages, route, llm_calls, booking_type, legacy_venues, result,
                   history, arguments, preferences, earlier, dated>>

\* the booking type is the one _extract_booking_info reads from the transcript
FetchBooking(booking_service, msgs, book_trip) ==
    LET
        \* generate_enriched_itinerary, lines 205-214 and 281: a booking lookup that
        \* raised counts as no result, and the links are read from the result
        BookingLinks(lookup) ==
            _format_booking_links(IF lookup.kind = "raises" \/ lookup.value = None THEN None
                                  ELSE lookup.value.some)
        type == _extract_booking_info(msgs)
        prefs == [city |-> Some(<<"T","o","r","o","n","t","o">>), country |-> Some(<<"C","a","n","a","d","a">>),
                  start_date |-> None, end_date |-> None, pace |-> Some(<<"m","o","d","e","r","a","t","e">>),
                  interests |-> <<>>]
        fetched == _fetch_booking(booking_service, prefs, type, None, book_trip)
    IN  /\ called = NotCalled
        /\ called' = [function |-> "_fetch_booking",
                       preferences |-> [booking_service |-> booking_service,
                                        messages |-> msgs, booking_type |-> type],
                       response |-> book_trip,
                       outcome |-> [outcome |-> fetched.outcome, asked |-> fetched.asked,
                                    booking_links |-> BookingLinks(fetched.outcome)]]
        /\ UNCHANGED <<use_groq, use_gemini, groq_client, gemini_client, venue_service,
                       orchestrator, gemini_key, transcript, phases, turns, pc, user_input,
                       messages, route, llm_calls, booking_type, legacy_venues, result,
                       history, arguments, preferences, earlier, dated>>

\* The itinerary texts have up to MaxLines lines, given by their numbers.
\* GoogleMapsService as _fetch_routes sees it: there or not (maps_service is None),
\* is_available(), and what get_itinerary_routes does when it is called.
\* book_trip raises, or returns a skipped booking, one with both links or one with
\* none. The booking request is read from a transcript (conversation_service.py
\* line 460).
NextEnrich ==
    \/ \E choice \in UNION {[1..n -> DOMAIN ITINERARY_LINES] : n \in 0..MaxLines} :
           ExtractVenueNames(choice)
    \/ \E maps_service \in
              {[service |-> FALSE, available |-> FALSE, get_itinerary_routes |-> NotCalled],
               [service |-> TRUE, available |-> FALSE, get_itinerary_routes |-> Returns(<<>>)]}
              \cup {[service |-> TRUE, available |-> TRUE, get_itinerary_routes |-> routes] :
                       routes \in {Raises, Returns(<<>>), Returns(<<[leg |-> 1]>>)}},
          choice \in UNION {[1..n -> DOMAIN ITINERARY_LINES] : n \in 0..MaxLines} :
           FetchRoutes(maps_service, choice)
    \/ \E booking_service \in BOOLEAN,
          msgs \in {<<Message("user", U_VISIT)>>,
                    <<Message("user", U_VISIT), Message("assistant", REPLY_CONFIRM),
                      Message("user", U_YES)>>,
                    <<Message("user", U_VISIT), Message("user", U_BOOKING)>>,
                    <<Message("user", <<"Y","e","s",","," ","a"," ","p","l","a","c","e"," ","t","o"," ","s","t","a","y"," ","w","o","u","l","d"," ","b","e"," ","g","o","o","d">>)>>,
                    <<Message("user", <<"I"," ","n","e","e","d"," ","a"," ","f","l","i","g","h","t"," ","t","i","c","k","e","t">>)>>},
          book_trip \in
              {Raises,
               Returns([skipped |-> TRUE,
                        accommodation |-> [airbnb_link |-> None],
                        transportation |-> [flights |-> [skyscanner_link |-> None]]]),
               Returns([skipped |-> FALSE,
                        accommodation |-> [airbnb_link |-> Some("https://www.airbnb.com/s/Toronto")],
                        transportation |->
                            [flights |-> [skyscanner_link |-> Some("https://www.skyscanner.ca/")]]]),
               Returns([skipped |-> FALSE,
                        accommodation |-> [airbnb_link |-> None],
                        transportation |-> [flights |-> [skyscanner_link |-> None]]])} :
           FetchBooking(booking_service, msgs, book_trip)

SpecEnrich == InitExtract /\ [][NextEnrich]_vars

(***************************************************************************)
(* The confirmation gate and the greeting                                  *)
(***************************************************************************)
AssistantIndexes(msgs) == {i \in DOMAIN msgs : msgs[i].role = "assistant"}

HasConfirmationPhrase(text) == Contains(Lower(text), Lower(_CONFIRMATION_MARKER))

\* the most recent assistant message of the incoming transcript has the phrase
IncomingEndsConfirmed ==
    /\ AssistantIndexes(transcript) # {}
    /\ HasConfirmationPhrase(transcript[Max(AssistantIndexes(transcript))].content)

\* the user input, trimmed, matches the affirmative pattern
InputIsAffirmative ==
    /\ user_input # None
    /\ ReMatch(_AFFIRMATIVE_PATTERNS, Strip(user_input.some), TRUE)

TurnOver == pc = "idle" /\ route # "none"

C10_Greeting ==
    (route # "none" /\ transcript = <<>>) =>
        /\ pc = "idle"
        /\ llm_calls = <<>>
        /\ result.status = "returned"
        /\ result.phase = "greeting"
        /\ result.assistant_text = GREETING_TEXT
        /\ result.still_need = Some(<<<<"c","i","t","y">>,
                                      <<"c","o","u","n","t","r","y">>,
                                      <<"t","r","a","v","e","l"," ","d","a","t","e","s">>,
                                      <<"p","a","c","e">>>>)
        /\ result.enrichment = None
        /\ messages = <<[role |-> "system", content |-> INTAKE_SYSTEM_PROMPT],
                        [role |-> "assistant", content |-> GREETING_TEXT]>>

\* C10, its case: a first turn that came with a user input
C10_GreetingWithInput ==
    /\ TurnOver
    /\ transcript = <<>>
    /\ user_input = Some(U_YES)
    /\ result.phase = "greeting"

(***************************************************************************)
(* The order of the phases of a conversation                               *)
(***************************************************************************)
\* C2, as stated: the phases returned to a caller that passes each returned
\* transcript back come in the order greeting, intake, confirmed, itinerary and skip
\* nothing: greeting only for the first turn, "confirmed" only after a turn that
\* returned "intake", "itinerary" only right after a turn that returned "confirmed".
C2_PhaseOrder ==
    \A i \in DOMAIN phases :
        /\ phases[i] = "greeting" => i = 1
        /\ phases[i] = "confirmed" => \E j \in 1..(i - 1) : phases[j] = "intake"
        /\ phases[i] = "itinerary" => i > 1 /\ phases[i - 1] = "confirmed"

\* C2, amended: greeting is returned for the first turn and for no other, and
\* "itinerary" is returned only right after a turn that returned "confirmed" or
\* "itinerary" (the turn whose assistant text has the confirmation phrase).
C2_PhaseOrderAmended ==
    \A i \in DOMAIN phases :
        /\ (phases[i] = "greeting") <=> (i = 1)
        /\ phases[i] = "itinerary" => i > 1 /\ phases[i - 1] \in {"confirmed", "itinerary"}

\* C2, its case: a turn has returned "itinerary" right after one that returned
\* "confirmed"
C2_ItineraryAfterConfirmed ==
    /\ TurnOver
    /\ result.status = "returned"
    /\ result.phase = "itinerary"
    /\ Len(phases) >= 2
    /\ phases[Len(phases)] = "itinerary"
    /\ phases[Len(phases) - 1] = "confirmed"

(***************************************************************************)
(* LLM failure                                                             *)
(***************************************************************************)
CallsOf(backend) == {i \in DOMAIN llm_calls : llm_calls[i].backend = backend}

FailedCalls == {i \in DOMAIN llm_calls : llm_calls[i].status \in {"raised", "empty"}}

\* a call of the backend failed in this turn
FailedIn(backend) == CallsOf(backend) \cap FailedCalls # {}

\* C3: a turn in which both backends failed (a call of Groq and a call of Gemini
\* each raised or gave no text) ends by raising: no result is returned, and the
\* transcript holds no assistant message that the incoming transcript did not hold.
C3_GenerationUnavailable ==
    (TurnOver /\ route \in {"intake", "itinerary"} /\ FailedIn("groq") /\ FailedIn("gemini")) =>
        /\ result.status = "raised"
        /\ Cardinality(AssistantIndexes(messages)) = Cardinality(AssistantIndexes(transcript))

\* C3, its case: both backends failed in the itinerary turn of a service that has an
\* orchestrator, and the turn raised
C3_BothFailedInItineraryTurn ==
    /\ TurnOver
    /\ route = "itinerary"
    /\ orchestrator # None
    /\ FailedIn("groq") /\ FailedIn("gemini")
    /\ result.status = "raised"

\* the backend failed in this turn: the service cannot reach it at all, or a call
\* of it raised or gave no text
BackendFailed(backend) ==
    \/ FailedIn(backend)
    \/ backend = "groq" /\ ~use_groq
    \/ backend = "gemini" /\ ~gemini_key

\* C4: a turn raises only when both backends have failed; an itinerary turn whose
\* last backend call gave a text returns phase "itinerary", whatever the weather,
\* venue, booking and route lookups did.
C4_OnlyGenerationFailureRaises ==
    /\ (TurnOver /\ result.status = "raised") =>
          BackendFailed("groq") /\ BackendFailed("gemini")
    /\ (TurnOver /\ route = "itinerary" /\ llm_calls # <<>>
            /\ llm_calls[Len(llm_calls)].status = "text") =>
          result.status = "returned" /\ result.phase = "itinerary"

\* C5: where Groq is the primary backend and Gemini has its API key, a Gemini call
\* is made only right after a Groq call of the same generation that failed, with
\* the same messages, temperature and token limit, and every Groq call that
\* failed is followed by such a Gemini call.
C5_FallbackIffPrimaryFailed ==
    (use_groq /\ gemini_key) =>
        /\ \A i \in CallsOf("gemini") :
              /\ i > 1
              /\ llm_calls[i - 1].backend = "groq"
              /\ llm_calls[i - 1].status \in {"raised", "empty"}
              /\ llm_calls[i - 1].site = llm_calls[i].site
              /\ llm_calls[i - 1].messages = llm_calls[i].messages
              /\ llm_calls[i - 1].temperature_x10 = llm_calls[i].temperature_x10
              /\ llm_calls[i - 1].max_tokens = llm_calls[i].max_tokens
        /\ \A i \in CallsOf("groq") \cap FailedCalls :
              /\ i < Len(llm_calls)
              /\ llm_calls[i + 1].backend = "gemini"
              /\ llm_calls[i + 1].site = llm_calls[i].site

\* C6: in one turn each backend is called at most once.
C6_OneAttemptPerBackend ==
    /\ Cardinality(CallsOf("groq")) <= 1
    /\ Cardinality(CallsOf("gemini")) <= 1

\* C6, its case: the itinerary turn of a service that has an orchestrator called
\* Groq, which failed, and then Gemini, and no backend after it
C6_OneHandoff ==
    /\ TurnOver
    /\ route = "itinerary"
    /\ orchestrator # None
    /\ Len(llm_calls) = 2
    /\ llm_calls[1].backend = "groq" /\ llm_calls[1].status \in {"raised", "empty"}
    /\ llm_calls[2].backend = "gemini"

(***************************************************************************)
(* The enrichment fan-out                                                  *)
(***************************************************************************)
\* an itinerary turn of a service whose orchestrator was called (lines 462-471)
EnrichedTurn ==
    /\ route = "itinerary"
    /\ orchestrator # None
    /\ use_groq \/ gemini_client \/ gemini_key

\* C7: an itinerary turn of a service with an orchestrator completes the fan-out
\* whatever each lookup did: a turn that returned the itinerary returned the
\* enrichment with it, the weather summary null where the weather lookup raised,
\* the booking links those of the booking lookup.
C7_FailSoftFanOut ==
    (TurnOver /\ EnrichedTurn /\ result.status = "returned") =>
        result.enrichment # None

\* C8: the itinerary LLM of a service with an orchestrator is invoked only after
\* the three lookups have settled, with the prompt generate_enriched_itinerary
\* builds from their results: the venue catalogue and the weather context.
C8_JoinBeforePrompt ==
    EnrichedTurn =>
        \A i \in DOMAIN llm_calls :
            /\ llm_calls[i].site = "orchestrator"
            /\ DOMAIN llm_calls[i].messages[1].content =
                  {"template", "venue_catalogue", "weather_context"}

(***************************************************************************)
(* The venue catalogue of the prompt                                       *)
(***************************************************************************)
FallbackCatalogue == format_venues_for_chat(TORONTO_FALLBACK_VENUES)

NoRows(outcome) ==
    outcome.kind \in {"absent", "raises"} \/ (outcome.kind = "returns" /\ outcome.value = <<>>)

\* C9: the catalogue of every itinerary prompt has venues in it, and a venue lookup
\* that was not possible, raised or gave no rows is followed by a prompt with the
\* 15 fallback venues, in the orchestrator and in the conversation service.
C9_CatalogueNeverEmpty ==
    /\ \A i \in DOMAIN llm_calls :
          llm_calls[i].site \in {"orchestrator", "legacy"} =>
              /\ llm_calls[i].messages[1].content.venue_catalogue # format_venues_for_chat(<<>>)
              /\ Len(llm_calls[i].messages[1].content.venue_catalogue) >= 1
    /\ (legacy_venues.st = "done" /\ NoRows(legacy_venues.outcome)) =>
          \E i \in DOMAIN llm_calls :
              /\ llm_calls[i].site \in {"orchestrator", "legacy"}
              /\ llm_calls[i].messages[1].content.venue_catalogue = FallbackCatalogue
    /\ \A outcome \in VenueOutcomes \cup {NotCalled} :
          /\ _fetch_venues(outcome) # <<>>
          /\ NoRows(outcome) => _fetch_venues(outcome) = TORONTO_FALLBACK_VENUES

\* C9, its case: the places query raised in the turn of a service that has an
\* orchestrator, and the itinerary prompt of the turn has the 15 fallback venues
C9_FallbackAfterFailedQuery ==
    /\ EnrichedTurn
    /\ legacy_venues = Done(Raises)
    /\ \E i \in DOMAIN llm_calls :
          /\ Len(llm_calls[i].messages[1].content.venue_catalogue) = 15
          /\ llm_calls[i].messages[1].content.venue_catalogue = FallbackCatalogue

(***************************************************************************)
(* The reply of an intake turn                                             *)
(***************************************************************************)
\* an intake turn has returned
IntakeReturned == TurnOver /\ route = "intake" /\ result.status = "returned"

\* the text the LLM gave to the turn: that of the last backend call
IntakeReply == llm_calls[Len(llm_calls)].reply

STILL_NEED_TEXT ==
    <<"s","t","i","l","l"," ","n","e","e","d">>

\* the line is a tracking line: "still need:" begins it, after blanks, in any case
IsTrackingLine(line) == StartsWith(Lower(Strip(line)), STILL_NEED_TEXT \o <<":">>)

\* C11: an intake turn returns "confirmed" exactly when the reply of the LLM holds
\* the confirmation phrase (in any case), and "intake" otherwise.
C11_PhaseFromReply ==
    IntakeReturned =>
        result.phase = (IF HasConfirmationPhrase(IntakeReply) THEN "confirmed" ELSE "intake")

\* C11, amended: an intake turn returns "confirmed" exactly when a line of the reply
\* that is no tracking line holds the confirmation phrase, and "intake" otherwise;
\* nothing but the reply decides the phase.
C11_PhaseFromVisibleReply ==
    IntakeReturned =>
        LET lines == SplitLines(IntakeReply)
            shown == \E i \in DOMAIN lines :
                         ~IsTrackingLine(lines[i]) /\ HasConfirmationPhrase(lines[i])
        IN  result.phase = (IF shown THEN "confirmed" ELSE "intake")

\* C11, its case: the reply holds the phrase in its tracking line alone, and the
\* turn has returned "intake"
C11_PhraseInTrackingLine ==
    /\ IntakeReturned
    /\ HasConfirmationPhrase(IntakeReply)
    /\ result.phase = "intake"

\* C12: the intake system prompt holds the confirmation phrase (in any case), and
\* an intake turn whose reply is the confirmation question of the prompt returns
\* "confirmed".
C12_MarkerInPrompt ==
    (IntakeReturned /\ IntakeReply = REPLY_PROMPT_QUESTION) =>
        /\ HasConfirmationPhrase(INTAKE_SYSTEM_PROMPT)
        /\ result.phase = "confirmed"

\* C13: the text an intake turn returns and the assistant message it appends hold
\* no "still need" (in any case), and the lines of the reply without it are the
\* lines of the returned text, in order.
C13_StillNeedHidden ==
    IntakeReturned =>
        /\ ~Contains(Lower(result.assistant_text), STILL_NEED_TEXT)
        /\ messages[Len(messages)].role = "assistant"
        /\ ~Contains(Lower(messages[Len(messages)].content), STILL_NEED_TEXT)
        /\ SplitLines(result.assistant_text) =
               SelectSeq(SplitLines(IntakeReply),
                         LAMBDA line : ~Contains(Lower(line), STILL_NEED_TEXT))

(***************************************************************************)
(* The turn result and the transcript                                      *)
(***************************************************************************)
\* C14: in a turn result still_need is not null only with phase "greeting" or
\* "intake", and the enrichment is not null only with phase "itinerary".
C14_ResultFields ==
    (TurnOver /\ result.status = "returned") =>
        /\ result.still_need # None => result.phase \in {"greeting", "intake"}
        /\ result.enrichment # None => result.phase = "itinerary"

\* C14, amended: still_need is not null exactly with the phases "greeting",
\* "intake" and "confirmed", and null with "itinerary"; the enrichment is not null
\* only with phase "itinerary".
C14_ResultFieldsAmended ==
    (TurnOver /\ result.status = "returned") =>
        /\ result.phase \in {"greeting", "intake", "confirmed", "itinerary"}
        /\ result.still_need # None <=> result.phase \in {"greeting", "intake", "confirmed"}
        /\ result.enrichment # None => result.phase = "itinerary"

\* C14, its case: a turn has returned "confirmed" with its still_need list
C14_ConfirmedWithStillNeed ==
    /\ TurnOver
    /\ result.status = "returned"
    /\ result.phase = "confirmed"
    /\ result.still_need = Some(<<>>)

\* what the turn has put behind the incoming transcript: the user message, if an
\* input was given, and the last message
Appended ==
    (IF Truthy(user_input) THEN <<Message("user", user_input.some)>> ELSE <<>>)
        \o <<messages[Len(messages)]>>

\* C15: the transcript a turn other than the greeting returns is the incoming
\* transcript, then the user message if an input was given, then one assistant
\* message.
C15_AppendOnly ==
    (TurnOver /\ result.status = "returned" /\ route # "greeting") =>
        /\ messages[Len(messages)].role = "assistant"
        /\ messages = transcript \o Appended

\* C15, amended: as C15, but an intake turn whose incoming transcript does not
\* begin with a system message puts the intake system prompt in front of it; no
\* other message is ever put in front, and an itinerary turn puts none.
C15_AppendOnlyAfterSystem ==
    (TurnOver /\ result.status = "returned" /\ route # "greeting") =>
        LET seed == IF route = "intake" /\ transcript[1].role # "system"
                    THEN <<Message("system", INTAKE_SYSTEM_PROMPT)>> ELSE <<>>
        IN  /\ messages[Len(messages)].role = "assistant"
            /\ messages[Len(messages)].content = result.assistant_text
            /\ messages = seed \o transcript \o Appended

\* C15, its case: an intake turn has returned a transcript whose first message is
\* the system prompt it put in front of the incoming one
C15_SystemPutInFront ==
    /\ TurnOver
    /\ result.status = "returned"
    /\ route = "intake"
    /\ transcript[1].role # "system"
    /\ messages[1] = Message("system", INTAKE_SYSTEM_PROMPT)
    /\ Len(messages) = Len(transcript) + Len(Appended) + 1

\* C16: no step of a turn changes the state of the service object: the backends
\* that are enabled and the clients it holds.
C16_ServiceStateKept ==
    [][UNCHANGED <<use_groq, use_gemini, groq_client, gemini_client, venue_service,
                   orchestrator>>]_vars

(***************************************************************************)
(* The extractor of the orchestrator                                       *)
(***************************************************************************)
\* the user has written nothing but a hello
SaidNothing ==
    /\ UserMessages(history) # <<>>
    /\ \A i \in DOMAIN history : history[i].role = "user" => history[i].content = U_HELLO

\* C17: the extractor never fabricates: when the messages of the user say nothing
\* about the trip, the city, the country, the dates, the duration, the pace, the
\* interests and the location preference it passes on are null or empty.
C17_NeverFabricates ==
    (arguments # None /\ SaidNothing) =>
        /\ arguments.some.city = None
        /\ arguments.some.country = None
        /\ arguments.some.start_date = None
        /\ arguments.some.end_date = None
        /\ arguments.some.duration_days = None
        /\ arguments.some.pace = None
        /\ arguments.some.interests = <<>>
        /\ arguments.some.location_preference = None

\* the extractor was called before and after the last message of the user
ExtractedTwice == earlier # None /\ preferences # NotCalled

\* C18: interest extraction is monotonic: the interests extracted from a transcript
\* with one more message of the user contain the interests extracted from the
\* transcript without it.
C18_InterestsMonotonic ==
    ExtractedTwice =>
        /\ earlier.some.preferences.kind = "returns"
        /\ preferences.kind = "returns"
        /\ Range(earlier.some.preferences.value.interests)
               \subseteq Range(preferences.value.interests)

\* the interests the extractor computes, lines 375-381, only grow with the transcript
InterestsGrow ==
    ExtractedTwice =>
        Range(earlier.some.arguments.interests) \subseteq Range(arguments.some.interests)

\* the three values of the enum pace
CANONICAL_PACES == {<<"r","e","l","a","x","e","d">>, <<"m","o","d","e","r","a","t","e">>, <<"p","a","c","k","e","d">>}

\* C20: the pace of the extracted preferences is relaxed, moderate or packed, or
\* absent: every pace word the extractor recognises is mapped onto one of the three.
C20_CanonicalPace ==
    arguments # None =>
        \/ arguments.some.pace = None
        \/ arguments.some.pace.some \in CANONICAL_PACES

\* the extractor recognised the pace word of "a jam-packed trip"
C20_JamPacked ==
    /\ arguments # None
    /\ history[Len(history)].content = U_JAM_PACKED
    /\ arguments.some.pace = Some(<<"j","a","m","p","a","c","k","e","d">>)

\* the call of lines 404-413 raised for a transcript with dates, a budget and a city
C17_ExtractionRaised ==
    /\ preferences = Raises
    /\ arguments.some.start_date # None
    /\ arguments.some.budget # None

\* both dates of the call are dates of the calendar, and the first is not after the
\* second
DatesInOrder ==
    /\ dated # NotCalled
    /\ dated.start_date # None /\ strptime(dated.start_date.some) # None
    /\ dated.end_date # None /\ strptime(dated.end_date.some) # None
    /\ strptime(dated.start_date.some).some <= strptime(dated.end_date.some).some

\* end - start in days, plus one
InclusiveDays == strptime(dated.end_date.some).some - strptime(dated.start_date.some).some + 1

\* the call derives the trip length: the extractor and the validation always do, the
\* completion when no duration is given; the validation has no other ground to
\* refuse the request
DerivesLength ==
    \/ dated.function = "_extract_preferences_from_history"
    \/ dated.function = "_calculate_date_fields" /\ ~NonZero(dated.given)
    \/ /\ dated.function = "_validate_preferences"
       /\ NonZero(dated.given)
       /\ dated.budget.some >= MIN_DAILY_BUDGET * InclusiveDays

\* C19: the extractor, the date completion and the validation of the itinerary
\* service each give duration_days = (end - start in days) + 1 for every start <= end,
\* and a trip whose start is its end is accepted as a trip of one day.
C19_InclusiveDuration ==
    (DatesInOrder /\ DerivesLength) =>
        /\ dated.outcome.kind = "returns"
        /\ dated.outcome.value.duration_days = Some(InclusiveDays)

\* the validation refused a trip of one day that could pay for its day
C19_SameDayRefused ==
    /\ DatesInOrder
    /\ dated.function = "_validate_preferences"
    /\ dated.start_date = dated.end_date
    /\ NonZero(dated.given)
    /\ dated.budget.some >= MIN_DAILY_BUDGET
    /\ dated.outcome = Raises

(***************************************************************************)
(* The activities of a day, and the grounding of a generated plan          *)
(***************************************************************************)
\* the activities a day, meals excluded, of each pace
EXACT_ACTIVITIES == (<<"r","e","l","a","x","e","d">> :> 2) @@ (<<"m","o","d","e","r","a","t","e">> :> 3) @@ (<<"p","a","c","k","e","d">> :> 4)

\* every day of the plan has exactly the activities of the pace
ExactDays(itinerary, pace) ==
    \A d \in DOMAIN itinerary.days :
        Len(itinerary.days[d].activities) = EXACT_ACTIVITIES[pace]

\* C21: for the paces relaxed, moderate and packed the activities of a day are
\* exactly 2, 3 and 4, one value and not a range, in the configured pace
\* parameters, in the generation prompt built for the LLM (its pace block names
\* that one number) and in the feasibility check, which accepts a plan of the
\* right number of days whose days have that many activities and rejects a plan
\* with a day that has not.
C21_ExactActivities ==
    /\ \A pace \in VALID_PACES :
           PACE_PARAMS[pace].activities_per_day = [int |-> EXACT_ACTIVITIES[pace]]
    /\ called # NotCalled /\ called.function = "_build_generation_prompt"
       => /\ called.outcome.kind = "returns"
          /\ called.outcome.value.activities
                 = <<EXACT_ACTIVITIES[called.preferences.pace.some],
                     EXACT_ACTIVITIES[called.preferences.pace.some]>>
    /\ called # NotCalled /\ called.function = "_validate_feasibility"
       => /\ called.outcome.kind = "returns"
          /\ ExactDays(called.response.value.some, called.preferences.pace.some)
             /\ Len(called.response.value.some.days) = called.preferences.duration_days.some
             => called.outcome.value.feasible
          /\ ~ExactDays(called.response.value.some, called.preferences.pace.some)
             => ~called.outcome.value.feasible

\* C21 (case): the feasibility check was given a plan of one day with the three
\* activities of the moderate pace, and raised
C21_FeasibilityRaised ==
    /\ called # NotCalled
    /\ called.function = "_validate_feasibility"
    /\ called.preferences.pace = Some(<<"m","o","d","e","r","a","t","e">>)
    /\ called.preferences.duration_days = Some(1)
    /\ Len(called.response.value.some.days) = 1
    /\ ExactDays(called.response.value.some, <<"m","o","d","e","r","a","t","e">>)
    /\ called.outcome = Raises

\* the call of generate_itinerary had a request that passes validation
ValidRequest == _validate_preferences(called.preferences) # Raises

\* the plan the LLM gave has an activity that is not from the venue database
Ungrounded ==
    /\ called.response.kind = "returns"
    /\ called.response.value # None
    /\ ~_validate_database_only(called.response.value.some).valid

\* C22: a grounding violation in the generated plan is advisory: a call of
\* generate_itinerary with a valid request whose generated plan has an activity
\* that is not from the venue catalogue still returns the plan, it does not
\* raise.
C22_GroundingAdvisory ==
    called # NotCalled /\ called.function = "generate_itinerary" /\ ValidRequest /\ Ungrounded
    => called.outcome = Returns(called.response.value.some)

\* C22 (case): generate_itinerary had a valid request and an ungrounded plan of
\* the requested length, and raised
C22_UngroundedPlanRaised ==
    /\ called # NotCalled
    /\ called.function = "generate_itinerary"
    /\ ValidRequest
    /\ Ungrounded
    /\ Len(called.response.value.some.days) = _validate_preferences(called.preferences).value.duration_days.some
    /\ called.outcome.kind = "raises"

(***************************************************************************)
(* The order of the date patterns                                          *)
(***************************************************************************)
\* the user text the extractor reads
Combined == JoinUserTexts(history, 1)

\* the first match of each date pattern in the user text
IsoMatch == ReGroups(_DATE_RANGE_ISO, Combined, 1, FALSE)
TwoMonthsMatch == ReGroups(_DATE_RANGE_TWO_MONTHS, Combined, 1, TRUE)
MonthMatch == ReGroups(_DATE_RANGE_MONTH, Combined, 1, TRUE)

\* the group is the name of a month
IsMonth(m, k) == Lower(Group(Combined, m.some, k)) \in DOMAIN _MONTH_NAMES

\* the pattern yields a start and an end date: it matches, and the words it took
\* for months are months
IsoYields == IsoMatch # None
TwoMonthsYields == TwoMonthsMatch # None /\ IsMonth(TwoMonthsMatch, 1) /\ IsMonth(TwoMonthsMatch, 6)
MonthYields == MonthMatch # None /\ IsMonth(MonthMatch, 1)

\* C23: the date patterns are tried in the order ISO range, two-month range,
\* single-month range, and the first that yields a start and an end date wins:
\* the extractor has dates whenever one of the three yields them (a pattern that
\* yields none does not keep a later one from being tried), they are the ISO
\* dates when the ISO pattern yields, and else the months of the two-month
\* pattern when that one yields.
C23_FirstSuccessfulPatternWins ==
    arguments # None
    => /\ IsoYields \/ TwoMonthsYields \/ MonthYields
          <=> arguments.some.start_date # None /\ arguments.some.end_date # None
       /\ IsoYields
          => /\ arguments.some.start_date = Some(Group(Combined, IsoMatch.some, 1))
             /\ arguments.some.end_date = Some(Group(Combined, IsoMatch.some, 3))
       /\ ~IsoYields /\ TwoMonthsYields
          => /\ ParseInt(Slice(arguments.some.start_date.some, 6, 7))
                    = _MONTH_NAMES[Lower(Group(Combined, TwoMonthsMatch.some, 1))]
             /\ ParseInt(Slice(arguments.some.end_date.some, 6, 7))
                    = _MONTH_NAMES[Lower(Group(Combined, TwoMonthsMatch.some, 6))]

\* C23 (case): the two-month pattern matched words that are no months, the
\* single-month pattern yields dates, and the extractor has none
C23_LaterPatternNotTried ==
    /\ arguments # None
    /\ ~IsoYields
    /\ TwoMonthsMatch # None /\ ~TwoMonthsYields
    /\ MonthYields
    /\ arguments.some.start_date = None
    /\ arguments.some.end_date = None

(***************************************************************************)
(* Date completion                                                         *)
(***************************************************************************)
\* the three date fields after _calculate_date_fields
Completed == dated.outcome.value

\* the days from the completed start date to the completed end date, both counted
CompletedDays ==
    strptime(Completed.end_date.some).some - strptime(Completed.start_date.some).some + 1

\* two of the three completed fields are present
TwoPresent ==
    \/ Truthy(Completed.start_date) /\ Truthy(Completed.end_date)
    \/ Truthy(Completed.start_date) /\ NonZero(Completed.duration_days)
    \/ Truthy(Completed.end_date) /\ NonZero(Completed.duration_days)

\* C24: after the date completion, whenever two of start_date, end_date and
\* duration_days are present the third is present as well, and the three satisfy
\* duration_days = (end_date - start_date in days) + 1.
C24_DatesComplete ==
    (dated # NotCalled /\ dated.function = "_calculate_date_fields" /\ TwoPresent)
    => /\ Truthy(Completed.start_date)
       /\ Truthy(Completed.end_date)
       /\ NonZero(Completed.duration_days)
       /\ strptime(Completed.start_date.some) # None
       /\ strptime(Completed.end_date.some) # None
       /\ Completed.duration_days.some = CompletedDays

\* C24 (case): two dates of the calendar, in order, were given with a duration
\* that is not theirs, and the completion kept all three
C24_WrongDurationKept ==
    /\ DatesInOrder
    /\ dated.function = "_calculate_date_fields"
    /\ NonZero(dated.given)
    /\ dated.given.some # InclusiveDays
    /\ Completed.start_date = dated.start_date
    /\ Completed.end_date = dated.end_date
    /\ Completed.duration_days = dated.given

(***************************************************************************)
(* The extractor reads the user messages alone                             *)
(***************************************************************************)
\* words of an assistant or of the system that name a city, dates, a pace, an
\* interest and a budget
DECOY_TEXT == <<"P","a","r","i","s",","," ","F","r","a","n","c","e"," ","f","r","o","m"," ","2","0","2","7","-","0","1","-","0","1"," ","t","o"," ","2","0","2","7","-","0","1","-","0","3",","," ","p","a","c","k","e","d",","," ","m","u","s","e","u","m","s",","," ","$","9","0","0">>

\* the transcript with other words in every message that is not the user's
Reworded(msgs) ==
    [i \in DOMAIN msgs |-> IF msgs[i].role = "user" THEN msgs[i]
                           ELSE Message(msgs[i].role, DECOY_TEXT)]

\* the transcript with an assistant message after each message
RECURSIVE Answered(_)
Answered(msgs) ==
    IF msgs = <<>> THEN <<>>
    ELSE <<Head(msgs), Message("assistant", DECOY_TEXT)>> \o Answered(Tail(msgs))

\* transcripts with the user messages of `msgs`, in their order
SameUserMessages(msgs) == {Reworded(msgs), Answered(msgs)}

\* C25: the extraction reads the user messages alone: a transcript with the same
\* user messages in the same order and other system or assistant messages gives,
\* in the same year, the same keyword arguments and the same outcome of the call,
\* and the extraction calls no LLM.
C25_UserMessagesOnly ==
    arguments # None
    => /\ \A other \in SameUserMessages(history) :
              \E year \in YEARS :
                  LET extracted == ExtractedArguments(other, year)
                  IN  /\ extracted = arguments.some
                      /\ TripPreferences(extracted) = preferences
       /\ llm_calls = <<>>

\* C25 (case): the user said one thing without dates, the other messages of the
\* reworded transcript name dates, and the extractor has no dates
C25_DecoyIgnored ==
    /\ arguments # None
    /\ Len(UserMessages(history)) = 1
    /\ Reworded(history) # history
    /\ ReGroups(_DATE_RANGE_ISO, DECOY_TEXT, 1, FALSE) # None
    /\ arguments.some.start_date = None
    /\ \A year \in YEARS : ExtractedArguments(Reworded(history), year).start_date = None


(***************************************************************************)
(* The still_need list of an intake turn                                   *)
(***************************************************************************)
\* what the "Still need:" line of each reply of the model declares; a reply with
\* no line that begins with "Still need:" declares nothing
Declared(reply) ==
    IF reply = REPLY_ASK THEN Some(<<<<"t","r","a","v","e","l"," ","d","a","t","e","s">>, <<"p","a","c","e">>>>)
    ELSE IF reply \in {REPLY_CONFIRM, REPLY_PROMPT_QUESTION} THEN Some(<<>>)
    ELSE IF reply = REPLY_TRACKED_ONLY
    THEN Some(<<<<"n","o","n","e">>, <<"r","e","a","d","y"," ","t","o"," ","g","e","n","e","r","a","t","e"," ","y","o","u","r"," ","i","t","i","n","e","r","a","r","y">>>>)
    ELSE None

\* the transcript the intake turn worked on: the returned one without the
\* assistant message the turn appended
IntakeTranscript == SubSeq(messages, 1, Len(messages) - 1)

\* C26: the still_need list an intake turn returns is the list declared on the
\* "Still need:" line of the LLM reply, the line still in the reply when it is read
\* (the empty list when the line declares none); the list is derived from the user
\* messages of the conversation only when the reply has no such line.
C26_StillNeedFromReply ==
    IntakeReturned =>
        /\ Declared(IntakeReply) # None => result.still_need = Declared(IntakeReply)
        /\ Declared(IntakeReply) = None =>
               result.still_need = Some(_validate_fields_from_conversation(IntakeTranscript))

\* C26, its case: the reply declared that nothing is missing and the turn returned
\* the empty list, where the user messages alone would have given a list of fields
C26_DeclaredNoneKept ==
    /\ IntakeReturned
    /\ IntakeReply = REPLY_CONFIRM
    /\ result.still_need = Some(<<>>)
    /\ _validate_fields_from_conversation(IntakeTranscript) # <<>>


(***************************************************************************)
(* The venue names of an itinerary text                                    *)
(***************************************************************************)
\* the venues the lines of a text cite, each once, in the order in which the
\* lines first cite them
RECURSIVE CitedVenues(_, _)
CitedVenues(choice, names) ==
    IF choice = <<>> THEN names
    ELSE LET venue == ITINERARY_LINES[Head(choice)].venue
         IN  CitedVenues(Tail(choice),
                         IF venue = None \/ (\E i \in DOMAIN names : names[i] = venue.some)
                         THEN names ELSE Append(names, venue.some))

VenueNamesRead == called # NotCalled /\ called.function = "_extract_venue_names_from_itinerary"

\* C27: the venue names read from an itinerary text are the names that stand in
\* a citation "EM DASH name (Source:", each listed once, in the order of their
\* first citation in the text.
C27_VenueNamesInOrder ==
    VenueNamesRead =>
        /\ called.outcome = CitedVenues(called.preferences, <<>>)
        /\ \A i, j \in DOMAIN called.outcome : called.outcome[i] = called.outcome[j] => i = j

\* C27, its case: a text cites ROM, then the CN Tower, then ROM again; the names
\* read are ROM and the CN Tower
C27_RepeatedVenueOnce ==
    /\ VenueNamesRead
    /\ Len(called.preferences) = 3
    /\ ITINERARY_LINES[called.preferences[1]].venue = Some(<<"R","O","M">>)
    /\ ITINERARY_LINES[called.preferences[2]].venue = Some(<<"C","N"," ","T","o","w","e","r">>)
    /\ ITINERARY_LINES[called.preferences[3]].venue = Some(<<"R","O","M">>)
    /\ called.outcome = <<<<"R","O","M">>, <<"C","N"," ","T","o","w","e","r">>>>


(***************************************************************************)
(* The routes of an itinerary text                                         *)
(***************************************************************************)
RoutesFetched == called # NotCalled /\ called.function = "_fetch_routes"

\* the routing collaborator is not there or not available, raises, or returns no
\* routes
NoRoutesFrom(maps_service) ==
    \/ ~maps_service.service
    \/ ~maps_service.available
    \/ maps_service.get_itinerary_routes.kind = "raises"
    \/ maps_service.get_itinerary_routes = Returns(<<>>)

\* C28: the route enrichment returns null, and does not raise, whenever the text
\* cites fewer than 2 distinct venues or the routing collaborator is unavailable,
\* raises or returns no routes; with fewer than 2 venues the collaborator is not
\* asked for routes.
C28_RoutesFailSoft ==
    RoutesFetched =>
        LET venues == CitedVenues(called.preferences, <<>>)
        IN  /\ DOMAIN called.outcome = {"returned", "asked"}
            /\ (Len(venues) < 2 \/ NoRoutesFrom(called.response))
                   => called.outcome.returned = None
            /\ Len(venues) < 2 => called.outcome.asked = <<>>

\* C28, its case: the routing collaborator would return a route, the text cites
\* one venue twice, and the enrichment returns null without asking
C28_OneVenueNotAsked ==
    /\ RoutesFetched
    /\ called.response.available
    /\ called.response.get_itinerary_routes = Returns(<<[leg |-> 1]>>)
    /\ called.preferences = <<1, 3>>
    /\ called.outcome = [returned |-> None, asked |-> <<>>]


(***************************************************************************)
(* The booking lookup                                                      *)
(***************************************************************************)
BookingFetched == called # NotCalled /\ called.function = "_fetch_booking"

\* C30: when the conversation asks for no booking (booking type "none") or there
\* is no booking service, book_trip is not called and the booking links of the
\* result are null.
C30_NoBookingUnasked ==
    BookingFetched =>
        ((called.preferences.booking_type = "none" \/ ~called.preferences.booking_service)
            => /\ called.outcome.asked = <<>>
               /\ called.outcome.outcome = Returns(None)
               /\ called.outcome.booking_links = None)

\* C30, its case: there is a booking service whose book_trip would return links,
\* the user has asked for no booking, and book_trip is not called
C30_ServiceNotAsked ==
    /\ BookingFetched
    /\ called.preferences.booking_service
    /\ called.preferences.messages = <<Message("user", U_VISIT)>>
    /\ called.preferences.booking_type = "none"
    /\ called.response.kind = "returns"
    /\ ~called.response.value.skipped
    /\ called.response.value.accommodation.airbnb_link # None
    /\ called.outcome.asked = <<>>
    /\ called.outcome.booking_links = None


(***************************************************************************)
(* The itinerary turn after the orchestrator has failed                    *)
(***************************************************************************)
\* C29: in the itinerary turn of a service with an orchestrator, whose enriched
\* generation raises, the turn goes on with the venue-only generation of
\* ConversationService; when that gives a text the turn returns phase "itinerary",
\* the transcript with one assistant message appended, which is that text,
\* still_need null and enrichment null, and the turn raises only when that
\* generation has failed.
C29_FallbackAfterOrchestrator ==
    (route = "itinerary" /\ orchestrator # None) =>
        /\ legacy_venues # Idle
        /\ \A i \in DOMAIN llm_calls : llm_calls[i].site = "legacy"
        /\ (TurnOver /\ result.status = "returned") =>
              /\ result.phase = "itinerary"
              /\ result.still_need = None
              /\ result.enrichment = None
              /\ messages = transcript \o Appended
              /\ messages[Len(messages)] = Message("assistant", IntakeReply)
              /\ result.assistant_text = IntakeReply
        /\ (TurnOver /\ result.status = "raised") =>
              (llm_calls = <<>> \/ llm_calls[Len(llm_calls)].status \in {"raised", "empty"})

\* C29, its case: the service has an orchestrator, the places query of the
\* venue-only path has run and its LLM call gave the itinerary, which the turn
\* returned with no enrichment
C29_ReturnedByFallback ==
    /\ TurnOver
    /\ route = "itinerary"
    /\ orchestrator # None
    /\ legacy_venues = Done(Returns(DB_VENUES))
    /\ result.status = "returned"
    /\ result.phase = "itinerary"
    /\ result.enrichment = None
    /\ result.assistant_text = REPLY_ITINERARY
    /\ Len(messages) = Len(transcript) + 2

====
